---- MODULE Spec2Model ----
(***************************************************************************)
(* Model of the Pieces text CRDT: the operation store, the piece tree,     *)
(* the range-tag tree and the insert / del / undo / redo protocols of      *)
(* PieceCRDT (piecetree.hpp), with the oracles the test program uses.      *)
(*                                                                         *)
(* An engine (one PieceCRDT object) is a record e:                         *)
(*   lamport_stamp  uint32 clock                                           *)
(*   local_id       ReplicaID of the engine                                *)
(*   replicas       the OrderedSet<Replica>, in container order; a         *)
(*                  Replica* is an index into it                           *)
(*   pieces         the heap of Piece cells; a Piece* is an index, 0 is    *)
(*                  nullptr / the end() iterator                           *)
(*   piece_tree     the Piece* of the sequence, in order                   *)
(*   keys           the leaf keys (PieceInfo) of the sequence, parallel    *)
(*                  to piece_tree                                          *)
(*   tags           the heap of RangeTag cells; a RangeTag* is an index    *)
(*   deletions      the RangeTag* of the range-tag tree, in order          *)
(*   fault          "none", or why the process stopped (failed assert,     *)
(*                  dereference of nullptr or of an end() iterator)        *)
(* A StoredOperation* is <<Replica*, stamp>>: the slot that owns it.       *)
(***************************************************************************)
EXTENDS Integers, Sequences, FiniteSets, TLC

\* ---------------------------------------------------------------- widths
\* uint32_t stamps wrap modulo StampMod and size_t modulo SizeMod.  TLC's
\* integers are 32 bit, so the model uses narrower words; every length and
\* stamp of the model stays far below them unless the arithmetic wraps.
StampMod == 64
SizeMod == 1048576

Wrap(x) == x % SizeMod

\* ---------------------------------------------------------------- pointers
NullOp == <<>>          \* nullptr for StoredOperation*
Bad == <<0>>            \* StatedPtr Error_State
End == 0                \* nullptr for Piece* / RangeTag*, and end()
NoSlot == [type |-> "None"]   \* an empty unique_ptr slot

Min(S) == CHOOSE x \in S : \A y \in S : x <= y
Max2(a, b) == IF a < b THEN b ELSE a

Fault(e, why) == IF e.fault = "none" THEN [e EXCEPT !.fault = why] ELSE e

\* The value of body with x bound to v, written Bind([x \in {v} |-> body]).
Bind(f) == f[CHOOSE x \in DOMAIN f : TRUE]

\* ---------------------------------------------------------------- UTF-8
\* Text is a sequence of codepoints; Utf8 gives the bytes of one.
Wide == {"E9"}
Utf8(c) == IF c \in Wide THEN <<"C3", "A9">> ELSE <<c>>

RECURSIVE Encode(_)
Encode(s) == IF s = <<>> THEN <<>> ELSE Utf8(Head(s)) \o Encode(Tail(s))

\* byte length of the codepoints s[from+1 .. from+n]  (utf8::advance)
RECURSIVE advance(_, _, _)
advance(s, from, n) ==
    IF n = 0 \/ from >= Len(s) THEN 0
    ELSE Len(Utf8(s[from + 1])) + advance(s, from + 1, n - 1)

\* ---------------------------------------------------------------- store
Op(e, p) == e.replicas[p[1]].segments[p[2] + 1]
SetOp(e, p, rec) == [e EXCEPT !.replicas[p[1]].segments[p[2] + 1] = rec]
ReplicaIdOf(e, p) == e.replicas[p[1]].id

\* StoredOperation::operator<
OpLess(e, a, b) ==
    IF a[2] # b[2] THEN a[2] < b[2]
    ELSE ReplicaIdOf(e, a) < ReplicaIdOf(e, b)

\* OperationID::operator<
OperationIDLess(a, b) ==
    IF a.replica # b.replica THEN a.replica < b.replica
    ELSE a.stamp < b.stamp

\* OrderedSet<Replica>::find(id): lower_bound, the first record whose id is
\* not less than id, end() when there is none
replicas_find(e, id) ==
    Bind([S \in {{i \in 1..Len(e.replicas) : ~(e.replicas[i].id < id)}} |->
        IF S = {} THEN End ELSE Min(S)])

getReplica(e, id) ==
    Bind([it \in {replicas_find(e, id)} |->
        IF it = End
        THEN [e |-> [e EXCEPT !.replicas =
                        Append(@, [id |-> id, segments |-> <<>>])],
              r |-> Len(e.replicas) + 1]
        ELSE [e |-> e, r |-> it]])

\* n empty slots (vector::resize grows with null unique_ptrs)
RECURSIVE NoSlots(_)
NoSlots(n) == IF n = 0 THEN <<>> ELSE <<NoSlot>> \o NoSlots(n - 1)

\* storeOp<T>(const Replica*, stamp, args): rec is the constructed T
storeOpAt(e, r, stamp, rec) ==
    Bind([ls \in {(Max2(e.lamport_stamp, stamp) + 1) % StampMod} |->
        Bind([segs \in {e.replicas[r].segments} |->
        Bind([resized \in {IF ls <= Len(segs) THEN SubSeq(segs, 1, ls)
                   ELSE segs \o NoSlots(ls - Len(segs))} |->
        IF stamp >= ls THEN Fault(e, "out of range slot")
        ELSE IF resized[stamp + 1].type # "None" THEN Fault(e, "assert slot empty")
        ELSE [e EXCEPT !.lamport_stamp = ls,
                       !.replicas[r].segments =
                           [resized EXCEPT ![stamp + 1] =
                               [rec EXCEPT !.replica = r, !.stamp = stamp]]]])])])

\* storeOp<T>(ReplicaID, stamp, args)
storeOp(e, replica_id, stamp, rec) ==
    Bind([g \in {getReplica(e, replica_id)} |->
        [e |-> storeOpAt(g.e, g.r, stamp, rec), p |-> <<g.r, stamp>>]])

\* constructors of the stored operations (replica and stamp set by storeOp)
NewSegment(str) ==
    [type |-> "Insert", has_undo |-> FALSE, replica |-> 0, stamp |-> 0,
     insert_pos |-> 0, parent |-> NullOp, last_piece |-> End,
     insert_piece |-> End, split_child |-> <<>>, data |-> str,
     undo_op |-> NullOp]
NewStoredDeletion ==
    [type |-> "Delete", has_undo |-> FALSE, replica |-> 0, stamp |-> 0,
     left |-> End, right |-> End]
NewStoredUndo(target) ==
    [type |-> "Undo", has_undo |-> FALSE, replica |-> 0, stamp |-> 0,
     target |-> target]
NewStoredRedo(target) ==
    [type |-> "Redo", has_undo |-> FALSE, replica |-> 0, stamp |-> 0,
     target |-> target]

\* PieceCRDT::toStored
toStored(e, a) ==
    Bind([r \in {replicas_find(e, a.replica)} |->
        IF r = End THEN [seg |-> NullOp, pos |-> 0]
        ELSE IF a.stamp >= Len(e.replicas[r].segments)
        THEN [seg |-> NullOp, pos |-> 0]
        ELSE IF e.replicas[r].segments[a.stamp + 1].type # "Insert"
        THEN [seg |-> NullOp, pos |-> 0]
        ELSE [seg |-> <<r, a.stamp>>, pos |-> a.pos]])

\* ---------------------------------------------------------------- pieces
\* Piece::size
PieceSize(pc) ==
    [total |-> pc.len, visible |-> IF pc.tombStone # NullOp THEN 0 ELSE pc.len]

\* Piece::Piece(Segment*)
NewPiece(e, seg) ==
    [seg |-> seg, data |-> 0, len |-> Len(Op(e, seg).data), seg_pos |-> 0,
     tombStone |-> NullOp]

\* the bytes res.append(it->data, it->len) copies: len BYTES from data
PieceBytes(e, pc) ==
    Bind([b \in {Encode(Op(e, pc.seg).data)} |->
        Bind([hi \in {IF pc.data + pc.len <= Len(b) THEN pc.data + pc.len ELSE Len(b)} |->
        SubSeq(b, pc.data + 1, hi)])])

\* sum of the first n keys (AddSummarizer / Iterator::update)
RECURSIVE prefix(_, _)
prefix(keys, n) ==
    IF n = 0 THEN [total |-> 0, visible |-> 0]
    ELSE Bind([s \in {prefix(keys, n - 1)} |->
             [total |-> s.total + keys[n].total,
              visible |-> s.visible + keys[n].visible]])

index(e, p) == CHOOSE i \in 1..Len(e.piece_tree) : e.piece_tree[i] = p

\* Iterator::position of the iterator on piece p (End: the end() iterator)
position(e, p) ==
    IF p = End THEN prefix(e.keys, Len(e.keys))
    ELSE prefix(e.keys, index(e, p) - 1)

\* ++it / --it of Sequence::Iterator; -1 stands for an iterator moved past
\* end() or before begin()
succ(e, p) ==
    IF p = End \/ p = -1 THEN -1
    ELSE IF index(e, p) = Len(e.piece_tree) THEN End
    ELSE e.piece_tree[index(e, p) + 1]
pred(e, p) ==
    IF p = -1 THEN -1
    ELSE IF p = End THEN e.piece_tree[Len(e.piece_tree)]
    ELSE IF index(e, p) = 1 THEN -1
    ELSE e.piece_tree[index(e, p) - 1]

\* Sequence::insertBefore(it, value): the new cell's Piece* is Len(pieces)+1
insertBefore(e, it, pc) ==
    Bind([n \in {Len(e.pieces) + 1} |->
        Bind([i \in {IF it = End THEN Len(e.piece_tree) + 1 ELSE index(e, it)} |->
        [e EXCEPT !.pieces = Append(@, pc),
                  !.piece_tree = SubSeq(@, 1, i - 1) \o <<n>> \o SubSeq(@, i, Len(@)),
                  !.keys = SubSeq(@, 1, i - 1) \o <<PieceSize(pc)>> \o SubSeq(@, i, Len(@))]])])

\* Sequence::find(pos, cmp) with cmp = a < b.total / a < b.visible
findHistory(e, history_pos) ==
    Bind([S \in {{i \in 1..Len(e.keys) : history_pos < prefix(e.keys, i).total}} |->
        IF S = {} THEN End ELSE e.piece_tree[Min(S)]])
find(e, file_pos) ==
    Bind([S \in {{i \in 1..Len(e.keys) : file_pos < prefix(e.keys, i).visible}} |->
        IF S = {} THEN End ELSE e.piece_tree[Min(S)]])

\* PieceTree::find(const StoredAnchor&); End stands for a failed assert or a
\* dereference of nullptr / end()
findAnchor(e, a) ==
    IF a.seg = NullOp THEN End
    ELSE
    Bind([seg \in {Op(e, a.seg)} |->
        Bind([sc \in {seg.split_child} |->
        Bind([S \in {{j \in 1..Len(sc) : ~(Op(e, sc[j]).insert_pos <= a.pos)}} |->
        Bind([piece \in {IF S # {} THEN Op(e, sc[Min(S)]).insert_piece ELSE seg.last_piece} |->
        IF piece = End THEN End
        ELSE IF e.pieces[piece].seg # a.seg THEN End
        ELSE IF e.pieces[piece].seg_pos <= a.pos THEN piece
        ELSE Bind([it \in {findHistory(e, Wrap(position(e, piece).total + a.pos
                                           - e.pieces[piece].seg_pos))} |->
                 IF it = End THEN End
                 ELSE IF e.pieces[it].seg # a.seg THEN End
                 ELSE it])])])])])

NoAnchor == [replica |-> 0, stamp |-> 0, pos |-> 0]

\* PieceTree::historyAnchor; ok = FALSE: assert(it != end()) fails
historyAnchor(e, pos) ==
    Bind([it \in {findHistory(e, pos)} |->
        IF it = End THEN [ok |-> FALSE, a |-> NoAnchor]
        ELSE [ok |-> TRUE,
              a |-> [replica |-> ReplicaIdOf(e, e.pieces[it].seg),
                     stamp |-> e.pieces[it].seg[2],
                     pos |-> Wrap(pos - position(e, it).total + e.pieces[it].seg_pos)]]])

\* PieceTree::anchor (anchor at a visible position)
anchor(e, pos) ==
    Bind([it \in {find(e, pos)} |->
        IF it = End THEN [ok |-> FALSE, a |-> NoAnchor]
        ELSE IF e.pieces[it].tombStone # NullOp THEN [ok |-> FALSE, a |-> NoAnchor]
        ELSE [ok |-> TRUE,
              a |-> [replica |-> ReplicaIdOf(e, e.pieces[it].seg),
                     stamp |-> e.pieces[it].seg[2],
                     pos |-> Wrap(pos - position(e, it).total + e.pieces[it].seg_pos)]]])

\* PieceTree::historyOffset
historyOffset(e, a) ==
    Bind([it \in {findAnchor(e, a)} |->
        Wrap(a.pos + position(e, it).total - e.pieces[it].seg_pos)])

\* PieceTree::split with the right half left at its old seg_pos
splitKeepSegPos(e, it, pos) ==
    Bind([pc \in {e.pieces[it]} |->
        IF ~(pos < pc.len) THEN [e |-> Fault(e, "assert pos < len"), it |-> End]
        ELSE
        Bind([offset \in {advance(Op(e, pc.seg).data, pc.seg_pos, pos)} |->
            Bind([new_node \in {[pc EXCEPT !.len = pos]} |->
            Bind([right \in {[pc EXCEPT !.data = @ + offset, !.len = @ - pos]} |->
            Bind([e1 \in {[e EXCEPT !.pieces[it] = right,
                            !.keys[index(e, it)] = PieceSize(right)]} |->
            [e |-> insertBefore(e1, it, new_node), it |-> Len(e.pieces) + 1]])])])])])

\* PieceTree::split with the data pointer of the right half not advanced
splitKeepData(e, it, pos) ==
    Bind([pc \in {e.pieces[it]} |->
        IF ~(pos < pc.len) THEN [e |-> Fault(e, "assert pos < len"), it |-> End]
        ELSE
        Bind([new_node \in {[pc EXCEPT !.len = pos]} |->
            Bind([right \in {[pc EXCEPT !.seg_pos = @ + pos, !.len = @ - pos]} |->
            Bind([e1 \in {[e EXCEPT !.pieces[it] = right,
                            !.keys[index(e, it)] = PieceSize(right)]} |->
            [e |-> insertBefore(e1, it, new_node), it |-> Len(e.pieces) + 1]])])])])

\* PieceTree::split: returns the engine and the new left piece
split(e, it, pos) ==
    Bind([pc \in {e.pieces[it]} |->
        IF ~(pos < pc.len) THEN [e |-> Fault(e, "assert pos < len"), it |-> End]
        ELSE
        Bind([offset \in {advance(Op(e, pc.seg).data, pc.seg_pos, pos)} |->
            Bind([new_node \in {[pc EXCEPT !.len = pos]} |->
            Bind([right \in {[pc EXCEPT !.data = @ + offset, !.seg_pos = @ + pos,
                                !.len = @ - pos]} |->
            Bind([e1 \in {[e EXCEPT !.pieces[it] = right,
                            !.keys[index(e, it)] = PieceSize(right)]} |->
            [e |-> insertBefore(e1, it, new_node), it |-> Len(e.pieces) + 1]])])])])])


\* the comparator without its stamp test
SegLessNoStamp(e, a, b) ==
    IF Op(e, a).insert_pos # Op(e, b).insert_pos
    THEN Op(e, a).insert_pos < Op(e, b).insert_pos
    ELSE ReplicaIdOf(e, a) < ReplicaIdOf(e, b)

\* comparator of PieceTree::insert over parent->split_child
SegLess(e, a, b) ==
    IF Op(e, a).insert_pos # Op(e, b).insert_pos
    THEN Op(e, a).insert_pos < Op(e, b).insert_pos
    ELSE IF a[2] # b[2] THEN a[2] < b[2]
    ELSE ReplicaIdOf(e, a) < ReplicaIdOf(e, b)

InsertAt(s, i, x) == SubSeq(s, 1, i - 1) \o <<x>> \o SubSeq(s, i, Len(s))

\* PieceTree::insert(Segment*)
PieceTree_insert(e, segment) ==
    Bind([S \in {Op(e, segment)} |->
        Bind([anc \in {[seg |-> S.parent, pos |-> S.insert_pos]} |->
        Bind([it0 \in {findAnchor(e, anc)} |->
        IF it0 = End THEN Fault(e, "find(anchor)")
        ELSE
        Bind([pos \in {Wrap(anc.pos - e.pieces[it0].seg_pos)} |->
            Bind([parent \in {S.parent} |->
            Bind([sc \in {Op(e, parent).split_child} |->
            Bind([C \in {{j \in 1..Len(sc) : ~SegLess(e, sc[j], segment)}} |->
            Bind([conflict_it \in {IF C = {} THEN Len(sc) + 1 ELSE Min(C)} |->
            Bind([r \in {IF pos = 0 /\ Len(sc) > 0
                 THEN IF conflict_it = 1
                         \/ Op(e, sc[conflict_it - 1]).insert_pos # anc.pos
                      THEN IF conflict_it <= Len(sc)
                              /\ Op(e, sc[conflict_it]).insert_pos = anc.pos
                           THEN \* case 1
                                [e |-> e, it |-> Op(e, sc[conflict_it]).insert_piece]
                           ELSE \* case 2
                                [e |-> e, it |-> pred(e, it0)]
                      ELSE \* case 3
                           [e |-> e, it |-> Op(e, sc[conflict_it - 1]).last_piece]
                 ELSE split(e, it0, pos)} |->
            IF r.e.fault # "none" THEN r.e
            ELSE IF r.it = End \/ r.it = -1 THEN Fault(e, "deref of no piece")
            ELSE
            Bind([e1 \in {SetOp(r.e, segment, [Op(r.e, segment) EXCEPT !.insert_piece = r.it])} |->
                Bind([e2 \in {SetOp(e1, parent,
                            [Op(e1, parent) EXCEPT
                                !.split_child = InsertAt(@, conflict_it, segment)])} |->
                Bind([e3 \in {insertBefore(e2, succ(e2, r.it), NewPiece(e2, segment))} |->
                SetOp(e3, segment,
                      [Op(e3, segment) EXCEPT !.last_piece = Len(e2.pieces) + 1])])])])])])])])])])])])])

\* Sequence::update(begin, end): recompute the leaf keys from begin's leaf to
\* end's leaf (the summaries above them are sums of the keys)
RECURSIVE updateKeys(_, _, _, _)
updateKeys(e, i, b, n) ==
    IF i > Len(e.keys) THEN <<>>
    ELSE <<IF (b <= n /\ b <= i /\ i <= n) \/ (b > n /\ (i >= b \/ i <= n))
           THEN PieceSize(e.pieces[e.piece_tree[i]])
           ELSE e.keys[i]>> \o updateKeys(e, i + 1, b, n)
update(e, begin, end) ==
    [e EXCEPT !.keys = updateKeys(e, 1, index(e, begin), index(e, end))]

\* ---------------------------------------------------------------- tags
\* RangeTag::RangeTag: status Active, old default constructed (bad)
NewRangeTag(is_left, anc, cur) ==
    [is_left |-> is_left, status |-> "Active", anchor |-> anc, cur |-> cur,
     old |-> Bad]

tagIndex(e, t) == CHOOSE i \in 1..Len(e.deletions) : e.deletions[i] = t
\* ++it / --it of the tag tree; End is end()
tagSucc(e, t) ==
    IF t = End THEN End
    ELSE IF tagIndex(e, t) = Len(e.deletions) THEN End
    ELSE e.deletions[tagIndex(e, t) + 1]
tagPred(e, t) ==
    IF t = End THEN e.deletions[Len(e.deletions)]
    ELSE IF tagIndex(e, t) = 1 THEN End
    ELSE e.deletions[tagIndex(e, t) - 1]

\* the comparator with left tags before right tags at one point
TagLessLeftFirst(e, a, b, history_pos) ==
    Bind([tie \in {IF a.is_left # b.is_left THEN a.is_left
               ELSE IF a.is_left THEN OpLess(e, b.cur, a.cur)
               ELSE OpLess(e, a.cur, b.cur)} |->
        IF a.anchor.seg = b.anchor.seg
        THEN IF a.anchor.pos # b.anchor.pos THEN a.anchor.pos < b.anchor.pos
             ELSE tie
        ELSE Bind([a_pos \in {historyOffset(e, a.anchor)} |->
                 IF a_pos # history_pos THEN a_pos < history_pos ELSE tie])])

\* the comparator of RangeTree::addTag: a an element of the tree, b the new
\* tag, history_pos the historical offset of b's piece
TagLess(e, a, b, history_pos) ==
    Bind([tie \in {IF a.is_left # b.is_left THEN b.is_left
               ELSE IF a.is_left THEN OpLess(e, b.cur, a.cur)
               ELSE OpLess(e, a.cur, b.cur)} |->
        IF a.anchor.seg = b.anchor.seg
        THEN IF a.anchor.pos # b.anchor.pos THEN a.anchor.pos < b.anchor.pos
             ELSE tie
        ELSE Bind([a_pos \in {historyOffset(e, a.anchor)} |->
                 IF a_pos # history_pos THEN a_pos < history_pos ELSE tie])])

\* RangeTree::addTag: returns the engine, the new tag and its piece
addTag(e, tag) ==
    Bind([p0 \in {findAnchor(e, tag.anchor)} |->
        IF p0 = End
        THEN [e |-> Fault(e, "find(anchor)"), it |-> End, piece |-> End]
        ELSE
        Bind([pos \in {Wrap(tag.anchor.pos - e.pieces[p0].seg_pos)} |->
            Bind([s \in {IF pos # 0 THEN split(e, p0, pos) ELSE [e |-> e, it |-> p0]} |->
            IF s.e.fault # "none" THEN [e |-> s.e, it |-> End, piece |-> End]
            ELSE
            Bind([e1 \in {s.e} |->
                Bind([piece_it \in {IF pos # 0 THEN succ(e1, s.it) ELSE p0} |->
                Bind([history_pos \in {position(e1, piece_it).total} |->
                Bind([S \in {{j \in 1..Len(e1.deletions) :
                        ~TagLess(e1, e1.tags[e1.deletions[j]], tag, history_pos)}} |->
                Bind([i \in {IF S = {} THEN Len(e1.deletions) + 1 ELSE Min(S)} |->
                Bind([n \in {Len(e1.tags) + 1} |->
                [e |-> [e1 EXCEPT !.tags = Append(@, tag),
                                  !.deletions = InsertAt(@, i, n)],
                 it |-> n, piece |-> piece_it]])])])])])])])])])

\* RangeTree::apply: the right tag first, then the left tag
apply(e, left, right) ==
    Bind([end \in {addTag(e, right)} |->
        IF end.e.fault # "none" THEN [e |-> end.e, begin |-> end, end |-> end]
        ELSE Bind([begin \in {addTag(end.e, left)} |->
                 [e |-> begin.e, begin |-> begin, end |-> end]])])


\* ---------------------------------------------------------------- range ops
SetTag(e, t, rec) == [e EXCEPT !.tags[t] = rec]
SetOld(e, t, o) == [e EXCEPT !.tags[t].old = o]
SetStatus(e, t, st) == [e EXCEPT !.tags[t].status = st]
SetTombStone(e, p, o) == [e EXCEPT !.pieces[p].tombStone = o]


\* a variant of updateRedo that leaves the pieces of other segments than
\* that of the left anchor as they are
updateRedoOwnSegment(e, piece, op) ==
    IF e.pieces[piece].seg # e.tags[Op(e, op).left].anchor.seg THEN e
    ELSE IF e.pieces[piece].tombStone = NullOp
            \/ OpLess(e, e.pieces[piece].tombStone, op)
    THEN SetTombStone(e, piece, op)
    ELSE e

\* a variant of updateRedo that keeps the tombstone a piece already has
updateRedoKeepOlder(e, piece, op) ==
    IF e.pieces[piece].tombStone = NullOp
    THEN SetTombStone(e, piece, op)
    ELSE e

\* the updatePiece lambda passed to redoRangeOp
updateRedo(e, piece, op) ==
    IF e.pieces[piece].tombStone = NullOp
       \/ OpLess(e, e.pieces[piece].tombStone, op)
    THEN SetTombStone(e, piece, op)
    ELSE e


\* a variant of updateUndo that leaves the tombstone when no other deletion
\* covers the piece
updateUndoCoveredOnly(e, piece, target, newest) ==
    IF e.pieces[piece].tombStone = target /\ newest # NullOp
    THEN SetTombStone(e, piece, newest)
    ELSE e

\* a variant of updateUndo that forgets the deletion that covers the piece
\* next
updateUndoToNull(e, piece, target, newest) ==
    IF e.pieces[piece].tombStone = target
    THEN SetTombStone(e, piece, NullOp)
    ELSE e

\* the updatePiece lambda undoDel passes to undoRangeOp
updateUndo(e, piece, target, newest) ==
    IF e.pieces[piece].tombStone = target
    THEN SetTombStone(e, piece, newest)
    ELSE e

\* redoRangeOp, the inner for over the pieces up to the piece of a tag
RECURSIVE redoPieces(_, _, _, _)
redoPieces(e, begin_piece, anc, stored_op) ==
    IF begin_piece = End \/ begin_piece = -1
    THEN [e |-> Fault(e, "piece walk past end()"), bp |-> begin_piece]
    ELSE IF e.pieces[begin_piece].seg # anc.seg
            \/ e.pieces[begin_piece].seg_pos # anc.pos
    THEN redoPieces(updateRedo(e, begin_piece, stored_op),
                    succ(e, begin_piece), anc, stored_op)
    ELSE [e |-> e, bp |-> begin_piece]

\* redoRangeOp, the body of the for over the tags for one tag that is not
\* the right tag
redoTag(w, stored_op, left_it, right_it) ==
    Bind([tag \in {w.e.tags[w.it]} |->
        IF tag.status = "Undone" \/ tag.status = "UnUsed" THEN w
        ELSE IF tag.old = Bad
        THEN [w EXCEPT !.e = Fault(w.e, "assert isGood")]
        ELSE IF (tag.old = NullOp \/ OpLess(w.e, tag.old, stored_op))
                /\ OpLess(w.e, stored_op, tag.cur)
        THEN Bind([first \in {IF w.first_across = left_it THEN w.it
                          ELSE w.first_across} |->
                 Bind([e1 \in {IF w.last_across # right_it /\ w.last_across # first
                       THEN SetOld(w.e, w.last_across, stored_op)
                       ELSE w.e} |->
                 [w EXCEPT !.e = e1, !.has_across = TRUE,
                           !.first_across = first, !.last_across = w.it]])])
        ELSE w])

\* redoRangeOp, the for over the tags from left_it + 1 to right_it
RECURSIVE redoWalk(_, _, _, _)
redoWalk(w, stored_op, left_it, right_it) ==
    IF w.it = End
    THEN [w EXCEPT !.e = Fault(w.e, "tag walk past end()")]
    ELSE
    Bind([P \in {redoPieces(w.e, w.bp, w.e.tags[w.it].anchor, stored_op)} |->
        Bind([w0 \in {[w EXCEPT !.e = P.e, !.bp = P.bp]} |->
        IF P.e.fault # "none" \/ w.it = right_it THEN w0
        ELSE Bind([w1 \in {redoTag(w0, stored_op, left_it, right_it)} |->
                 IF w1.e.fault # "none" THEN w1
                 ELSE redoWalk([w1 EXCEPT !.it = tagSucc(w1.e, w.it)],
                               stored_op, left_it, right_it)])])])

\* redoRangeOp, the scan leftwards from first_across that recomputes
\* left->old
RECURSIVE redoScanLeft(_, _, _, _, _)
redoScanLeft(e, it, left_it, newest, stored_op) ==
    IF it = left_it THEN [ok |-> TRUE, newest |-> newest]
    ELSE IF it = End THEN [ok |-> FALSE, newest |-> newest]
    ELSE
    Bind([tag \in {e.tags[it]} |->
        IF tag.status = "Undone" \/ tag.status = "UnUsed"
        THEN redoScanLeft(e, tagPred(e, it), left_it, newest, stored_op)
        ELSE IF tag.is_left /\ tag.cur = newest
        THEN IF tag.old = Bad THEN [ok |-> FALSE, newest |-> newest]
             ELSE redoScanLeft(e, tagPred(e, it), left_it, tag.old, stored_op)
        ELSE IF ~tag.is_left
                /\ (newest = NullOp \/ OpLess(e, newest, tag.cur))
                /\ OpLess(e, tag.cur, stored_op)
        THEN IF tag.old # newest THEN [ok |-> FALSE, newest |-> newest]
             ELSE redoScanLeft(e, tagPred(e, it), left_it, tag.cur, stored_op)
        ELSE redoScanLeft(e, tagPred(e, it), left_it, newest, stored_op)])

\* redoRangeOp, the scan rightwards from last_across that recomputes
\* right->old
RECURSIVE redoScanRight(_, _, _, _, _)
redoScanRight(e, it, right_it, newest, stored_op) ==
    IF it = right_it THEN [ok |-> TRUE, newest |-> newest]
    ELSE IF it = End THEN [ok |-> FALSE, newest |-> newest]
    ELSE
    Bind([tag \in {e.tags[it]} |->
        IF tag.status = "Undone" \/ tag.status = "UnUsed"
        THEN redoScanRight(e, tagSucc(e, it), right_it, newest, stored_op)
        ELSE IF ~tag.is_left /\ tag.cur = newest
        THEN IF tag.old = Bad THEN [ok |-> FALSE, newest |-> newest]
             ELSE redoScanRight(e, tagSucc(e, it), right_it, tag.old, stored_op)
        ELSE IF tag.is_left
                /\ OpLess(e, tag.cur, stored_op)
                /\ (newest = NullOp \/ OpLess(e, newest, tag.cur))
        THEN IF tag.old # newest THEN [ok |-> FALSE, newest |-> newest]
             ELSE redoScanRight(e, tagSucc(e, it), right_it, tag.cur, stored_op)
        ELSE redoScanRight(e, tagSucc(e, it), right_it, newest, stored_op)])

\* redoRangeOp, "update left and right tags" after the walk
redoFinish(w, stored_op, left_it, right_it) ==
    Bind([e1 \in {w.e} |->
        IF ~w.has_across
        THEN IF e1.tags[left_it].old # Bad /\ e1.tags[right_it].old # Bad
             THEN SetStatus(SetStatus(e1, right_it, "Active"), left_it, "Active")
             ELSE SetStatus(SetStatus(e1, right_it, "UnUsed"), left_it, "UnUsed")
        ELSE
        Bind([e2 \in {SetStatus(SetStatus(e1, right_it, "Active"), left_it, "Active")} |->
            Bind([fa \in {e2.tags[w.first_across].old} |->
            Bind([la \in {e2.tags[w.last_across].old} |->
            Bind([e3 \in {IF e2.tags[left_it].old # Bad THEN e2
                  ELSE IF fa = Bad THEN Fault(e2, "assert in left scan")
                  ELSE Bind([ls \in {redoScanLeft(e2, tagPred(e2, w.first_across),
                                                  left_it, fa, stored_op)} |->
                           IF ~ls.ok THEN Fault(e2, "assert in left scan")
                           ELSE SetOld(e2, left_it, ls.newest)])} |->
            Bind([e4 \in {IF e3.fault # "none" \/ e3.tags[right_it].old # Bad THEN e3
                  ELSE IF la = Bad THEN Fault(e3, "assert in right scan")
                  ELSE Bind([rs \in {redoScanRight(e3, tagSucc(e3, w.last_across),
                                                   right_it, la, stored_op)} |->
                           IF ~rs.ok THEN Fault(e3, "assert in right scan")
                           ELSE SetOld(e3, right_it, rs.newest)])} |->
            Bind([e5 \in {SetOld(SetOld(e4, w.last_across, stored_op),
                         w.first_across, stored_op)} |->
            IF e4.fault # "none" THEN e4
            ELSE IF (e5.tags[left_it].old # Bad) # (e5.tags[right_it].old # Bad)
            THEN Fault(e5, "assert left good = right good")
            ELSE e5])])])])])])])

\* PieceCRDT::redoRangeOp with the updatePiece lambda of del / redoDel
redoRangeOp(e, stored_op) ==
    Bind([e0 \in {SetOp(e, stored_op, [Op(e, stored_op) EXCEPT !.has_undo = FALSE])} |->
        Bind([left_it \in {Op(e0, stored_op).left} |->
        Bind([right_it \in {Op(e0, stored_op).right} |->
        IF left_it = End \/ right_it = End THEN Fault(e0, "deref of no tag")
        ELSE
        Bind([begin_piece \in {findAnchor(e0, e0.tags[left_it].anchor)} |->
            IF begin_piece = End THEN Fault(e0, "find(anchor)")
            ELSE
            Bind([w \in {redoWalk([e |-> e0, it |-> tagSucc(e0, left_it),
                           bp |-> begin_piece, has_across |-> FALSE,
                           first_across |-> left_it, last_across |-> right_it],
                          stored_op, left_it, right_it)} |->
            IF w.e.fault # "none" THEN w.e
            ELSE redoFinish(w, stored_op, left_it, right_it)])])])])])

\* undoRangeOp, the inner for over the pieces up to the piece of a tag
RECURSIVE undoPieces(_, _, _, _, _)
undoPieces(e, begin_piece, anc, stored_op, newest) ==
    IF begin_piece = End \/ begin_piece = -1
    THEN [e |-> Fault(e, "piece walk past end()"), bp |-> begin_piece]
    ELSE IF e.pieces[begin_piece].seg # anc.seg
            \/ e.pieces[begin_piece].seg_pos # anc.pos
    THEN undoPieces(updateUndo(e, begin_piece, stored_op, newest),
                    succ(e, begin_piece), anc, stored_op, newest)
    ELSE [e |-> e, bp |-> begin_piece]

\* undoRangeOp, the body of the for over the tags for one interior tag
undoTag(w, stored_op) ==
    Bind([tag \in {w.e.tags[w.it]} |->
        Bind([older \in {w.newest = NullOp \/ OpLess(w.e, w.newest, tag.cur)} |->
        Bind([reviveOld \in {IF older THEN w.newest ELSE Bad} |->
        IF tag.status = "Undone" THEN w
        ELSE IF tag.status = "UnUsed" /\ OpLess(w.e, stored_op, tag.cur) THEN w
        ELSE IF tag.status = "Active" /\ tag.old = Bad
        THEN [w EXCEPT !.e = Fault(w.e, "assert isGood")]
        ELSE IF tag.status = "Active" /\ tag.old # NullOp
                /\ OpLess(w.e, stored_op, tag.old) THEN w
        ELSE IF tag.old = stored_op
        THEN [w EXCEPT !.e = SetOld(w.e, w.it, w.newest)]
        ELSE IF tag.is_left
        THEN IF tag.status = "UnUsed"
             THEN [w EXCEPT !.unused_ops = @ \cup {tag.cur},
                            !.e = SetOld(w.e, w.it, reviveOld)]
             ELSE IF older
             THEN IF tag.old # w.newest
                  THEN [w EXCEPT !.e = Fault(w.e, "assert old = newest")]
                  ELSE [w EXCEPT !.newest = tag.cur]
             ELSE w
        ELSE IF tag.status = "UnUsed"
             THEN IF tag.cur \in w.unused_ops
                  THEN [w EXCEPT !.ops_covered = Append(@, tag.cur),
                                 !.e = SetOld(w.e, w.it, reviveOld)]
                  ELSE w
             ELSE IF tag.cur = w.newest
             THEN IF tag.old = Bad
                  THEN [w EXCEPT !.e = Fault(w.e, "assert isGood")]
                  ELSE [w EXCEPT !.newest = tag.old]
             ELSE w])])])

\* undoRangeOp, the for over the tags from left_it + 1 to right_it
RECURSIVE undoWalk(_, _, _)
undoWalk(w, stored_op, right_it) ==
    IF w.it = End
    THEN [w EXCEPT !.e = Fault(w.e, "tag walk past end()")]
    ELSE
    Bind([P \in {undoPieces(w.e, w.bp, w.e.tags[w.it].anchor, stored_op, w.newest)} |->
        Bind([w0 \in {[w EXCEPT !.e = P.e, !.bp = P.bp]} |->
        IF P.e.fault # "none" \/ w.it = right_it THEN w0
        ELSE Bind([w1 \in {undoTag(w0, stored_op)} |->
                 IF w1.e.fault # "none" THEN w1
                 ELSE undoWalk([w1 EXCEPT !.it = tagSucc(w1.e, w.it)],
                               stored_op, right_it)])])])

\* std::sort(ops_covered, *b < *a): newest first
RECURSIVE sortNewestFirst(_, _)
sortNewestFirst(e, S) ==
    IF S = {} THEN <<>>
    ELSE Bind([m \in {CHOOSE x \in S : \A y \in S : y = x \/ OpLess(e, y, x)} |->
             <<m>> \o sortNewestFirst(e, S \ {m})])

\* undoRangeOp that returns for an unused operation before it sets the status
undoRangeOpKeepUnUsed(e, stored_op) ==
    Bind([e0 \in {SetOp(e, stored_op, [Op(e, stored_op) EXCEPT !.has_undo = TRUE])} |->
        Bind([left_it \in {Op(e0, stored_op).left} |->
        Bind([right_it \in {Op(e0, stored_op).right} |->
        IF left_it = End \/ right_it = End
        THEN [e |-> Fault(e0, "deref of no tag"), ops_covered |-> <<>>]
        ELSE
        Bind([wasUnUsed \in {e0.tags[left_it].status = "UnUsed"
                         \/ e0.tags[right_it].status = "UnUsed"} |->
            Bind([e1 \in {SetStatus(SetStatus(e0, right_it, "Undone"), left_it, "Undone")} |->
            Bind([begin_piece \in {findAnchor(e1, e1.tags[left_it].anchor)} |->
            IF wasUnUsed THEN [e |-> e0, ops_covered |-> <<>>]
            ELSE IF begin_piece = End
            THEN [e |-> Fault(e1, "find(anchor)"), ops_covered |-> <<>>]
            ELSE IF e1.tags[left_it].old = Bad
            THEN [e |-> Fault(e1, "assert isGood"), ops_covered |-> <<>>]
            ELSE
            Bind([w \in {undoWalk([e |-> e1, it |-> tagSucc(e1, left_it),
                           bp |-> begin_piece, newest |-> e1.tags[left_it].old,
                           unused_ops |-> {}, ops_covered |-> <<>>],
                          stored_op, right_it)} |->
                [e |-> w.e,
                 ops_covered |->
                     sortNewestFirst(w.e, {w.ops_covered[i] :
                                              i \in 1..Len(w.ops_covered)})]])])])])])])])

\* PieceCRDT::undoRangeOp with the updatePiece lambda of undoDel
undoRangeOp(e, stored_op) ==
    Bind([e0 \in {SetOp(e, stored_op, [Op(e, stored_op) EXCEPT !.has_undo = TRUE])} |->
        Bind([left_it \in {Op(e0, stored_op).left} |->
        Bind([right_it \in {Op(e0, stored_op).right} |->
        IF left_it = End \/ right_it = End
        THEN [e |-> Fault(e0, "deref of no tag"), ops_covered |-> <<>>]
        ELSE
        Bind([wasUnUsed \in {e0.tags[left_it].status = "UnUsed"
                         \/ e0.tags[right_it].status = "UnUsed"} |->
            Bind([e1 \in {SetStatus(SetStatus(e0, right_it, "Undone"), left_it, "Undone")} |->
            Bind([begin_piece \in {findAnchor(e1, e1.tags[left_it].anchor)} |->
            IF wasUnUsed THEN [e |-> e1, ops_covered |-> <<>>]
            ELSE IF begin_piece = End
            THEN [e |-> Fault(e1, "find(anchor)"), ops_covered |-> <<>>]
            ELSE IF e1.tags[left_it].old = Bad
            THEN [e |-> Fault(e1, "assert isGood"), ops_covered |-> <<>>]
            ELSE
            Bind([w \in {undoWalk([e |-> e1, it |-> tagSucc(e1, left_it),
                           bp |-> begin_piece, newest |-> e1.tags[left_it].old,
                           unused_ops |-> {}, ops_covered |-> <<>>],
                          stored_op, right_it)} |->
                [e |-> w.e,
                 ops_covered |->
                     sortNewestFirst(w.e, {w.ops_covered[i] :
                                              i \in 1..Len(w.ops_covered)})]])])])])])])])


\* ---------------------------------------------------------------- engine
\* PieceCRDT::PieceCRDT with local_id = id: the EOF segment at stamp 0 and
\* its piece
NewEngine(id) ==
    Bind([e0 \in {[lamport_stamp |-> 0, local_id |-> id, replicas |-> <<>>,
               pieces |-> <<>>, piece_tree |-> <<>>, keys |-> <<>>,
               tags |-> <<>>, deletions |-> <<>>, fault |-> "none"]} |->
        Bind([st \in {storeOp(e0, id, 0, NewSegment(<<"E", "O", "F">>))} |->
        Bind([e1 \in {insertBefore(st.e, End, NewPiece(st.e, st.p))} |->
        SetOp(e1, st.p, [Op(e1, st.p) EXCEPT !.last_piece = 1])])])])

\* PieceCRDT::size
size(e) == position(e, pred(e, End)).visible

\* PieceCRDT::toString: the bytes of the pieces before the last one that are
\* not removed
RECURSIVE concatPieces(_, _, _, _)
concatPieces(e, i, n, all) ==
    IF i > n THEN <<>>
    ELSE (IF all \/ e.pieces[e.piece_tree[i]].tombStone = NullOp
          THEN PieceBytes(e, e.pieces[e.piece_tree[i]]) ELSE <<>>)
         \o concatPieces(e, i + 1, n, all)
toString(e) == concatPieces(e, 1, Len(e.piece_tree) - 1, FALSE)

\* PieceCRDT::insert
insert(e, op) ==
    Bind([st \in {storeOp(e, op.replica, op.stamp, NewSegment(op.str))} |->
        IF st.e.fault # "none" THEN st.e
        ELSE
        Bind([anc \in {toStored(st.e, op.anchor)} |->
        IF anc.seg = NullOp THEN st.e
        ELSE PieceTree_insert(
                 SetOp(st.e, st.p, [Op(st.e, st.p) EXCEPT
                                       !.parent = anc.seg, !.insert_pos = anc.pos]),
                 st.p)])])

\* PieceCRDT::del, the initialisation of left_it->old from the piece before
delLeftOld(e, left_it, left_piece, begin, stored_op) ==
    IF left_piece = e.piece_tree[1] THEN e
    ELSE
    Bind([op \in {e.pieces[pred(e, left_piece)].tombStone} |->
        IF op = NullOp THEN SetOld(e, left_it, NullOp)
        ELSE Bind([rt \in {e.tags[Op(e, op).right]} |->
        IF rt.old = Bad THEN Fault(e, "assert right->old.isGood")
        ELSE IF rt.anchor # begin
        THEN IF OpLess(e, op, stored_op) THEN SetOld(e, left_it, op) ELSE e
        ELSE IF rt.old = NullOp \/ OpLess(e, rt.old, stored_op)
        THEN IF rt.status # "Active" THEN Fault(e, "assert tombStone Active")
             ELSE SetOld(e, left_it, rt.old)
        ELSE e])])

\* PieceCRDT::del, the initialisation of right_it->old from the piece after
delRightOld(e, right_it, right_piece, end, stored_op) ==
    IF right_piece = End THEN e
    ELSE
    Bind([op \in {e.pieces[right_piece].tombStone} |->
        IF op = NullOp THEN SetOld(e, right_it, NullOp)
        ELSE Bind([lt \in {e.tags[Op(e, op).left]} |->
        IF lt.old = Bad THEN Fault(e, "assert left->old.isGood")
        ELSE IF lt.anchor # end
        THEN IF OpLess(e, op, stored_op) THEN SetOld(e, right_it, op) ELSE e
        ELSE IF lt.old = NullOp \/ OpLess(e, lt.old, stored_op)
        THEN IF lt.status # "Active" THEN Fault(e, "assert tombStone Active")
             ELSE SetOld(e, right_it, lt.old)
        ELSE e])])

\* PieceCRDT::del
del(e, op) ==
    Bind([st \in {storeOp(e, op.replica, op.stamp, NewStoredDeletion)} |->
        Bind([stored_op \in {st.p} |->
        IF st.e.fault # "none" THEN st.e
        ELSE
        Bind([begin \in {toStored(st.e, op.begin)} |->
        Bind([end \in {toStored(st.e, op.end)} |->
        Bind([a \in {apply(st.e, NewRangeTag(TRUE, begin, stored_op),
                   NewRangeTag(FALSE, end, stored_op))} |->
        IF a.e.fault # "none" THEN a.e
        ELSE
        Bind([left_it \in {a.begin.it} |->
        Bind([left_piece \in {a.begin.piece} |->
        Bind([right_it \in {a.end.it} |->
        Bind([right_piece \in {a.end.piece} |->
        Bind([e1 \in {delLeftOld(a.e, left_it, left_piece, begin, stored_op)} |->
        IF e1.fault # "none" THEN e1
        ELSE
        Bind([e2 \in {delRightOld(e1, right_it, right_piece, end, stored_op)} |->
        IF e2.fault # "none" THEN e2
        ELSE
        Bind([e3 \in {SetOp(e2, stored_op, [Op(e2, stored_op) EXCEPT
                                       !.left = left_it, !.right = right_it])} |->
        Bind([e4 \in {redoRangeOp(e3, stored_op)} |->
        IF e4.fault # "none" THEN e4
        ELSE update(e4, left_piece, right_piece)])])])])])])])])])])])])])

\* PieceCRDT::redoDel
redoDel(e, target) ==
    Bind([e1 \in {redoRangeOp(e, target)} |->
        IF e1.fault # "none" THEN e1
        ELSE
        Bind([left_piece \in {findAnchor(e1, e1.tags[Op(e1, target).left].anchor)} |->
        Bind([right_piece \in {findAnchor(e1, e1.tags[Op(e1, target).right].anchor)} |->
        IF left_piece = End \/ right_piece = End THEN Fault(e1, "find(anchor)")
        ELSE
        Bind([e2 \in {update(e1, left_piece, right_piece)} |->
        SetOp(e2, target, [Op(e2, target) EXCEPT !.has_undo = FALSE])])])])])

\* PieceCRDT::undoDel, the for over ops_covered
RECURSIVE redoCovered(_, _)
redoCovered(e, ops) ==
    IF ops = <<>> \/ e.fault # "none" THEN e
    ELSE redoCovered(redoRangeOp(e, Head(ops)), Tail(ops))


\* PieceCRDT::undoDel
undoDel(e, target) ==
    Bind([u \in {undoRangeOp(e, target)} |->
        Bind([e1 \in {redoCovered(u.e, u.ops_covered)} |->
        IF e1.fault # "none" THEN e1
        ELSE
        Bind([left_piece \in {findAnchor(e1, e1.tags[Op(e1, target).left].anchor)} |->
        Bind([right_piece \in {findAnchor(e1, e1.tags[Op(e1, target).right].anchor)} |->
        IF left_piece = End \/ right_piece = End THEN Fault(e1, "find(anchor)")
        ELSE
        Bind([e2 \in {update(e1, left_piece, right_piece)} |->
        SetOp(e2, target, [Op(e2, target) EXCEPT !.has_undo = TRUE])])])])])])

\* Segment::len
SegmentLen(e, seg) ==
    e.pieces[Op(e, seg).last_piece].seg_pos + e.pieces[Op(e, seg).last_piece].len

\* PieceCRDT::redoInsertion
redoInsertion(e, target) ==
    Bind([e1 \in {IF Op(e, target).undo_op # NullOp
              THEN redoDel(e, Op(e, target).undo_op)
              ELSE e} |->
        IF e1.fault # "none" THEN e1
        ELSE SetOp(e1, target, [Op(e1, target) EXCEPT !.has_undo = FALSE])])

\* PieceCRDT::undoInsertion
undoInsertion(e, target) ==
    IF Op(e, target).undo_op = NullOp
    THEN Bind([e0 \in {storeOpAt(e, target[1], target[2], NewStoredDeletion)} |->
             IF e0.fault # "none" THEN e0
             ELSE
             Bind([stored_op \in {target} |->
             Bind([begin \in {[seg |-> target, pos |-> 0]} |->
             Bind([end \in {[seg |-> target, pos |-> Wrap(SegmentLen(e, target) - 1)]} |->
             Bind([a \in {apply(e0, NewRangeTag(TRUE, begin, stored_op),
                        NewRangeTag(FALSE, end, stored_op))} |->
             IF a.e.fault # "none" THEN a.e
             ELSE
             Bind([e1 \in {SetOp(a.e, stored_op, [Op(a.e, stored_op) EXCEPT
                                             !.left = a.begin.it,
                                             !.right = a.end.it])} |->
             Bind([e2 \in {SetOp(e1, target, [Op(e1, target) EXCEPT !.undo_op = stored_op])} |->
             Bind([e3 \in {redoRangeOp(e2, stored_op)} |->
             IF e3.fault # "none" THEN e3
             ELSE
             Bind([e4 \in {update(e3, a.begin.piece, a.end.piece)} |->
             SetOp(e4, target, [Op(e4, target) EXCEPT !.has_undo = TRUE])])])])])])])])])])
    ELSE Bind([u \in {Op(e, target).undo_op} |->
             Bind([left_piece \in {findAnchor(e, e.tags[Op(e, u).left].anchor)} |->
             Bind([right_piece \in {findAnchor(e, e.tags[Op(e, u).right].anchor)} |->
             IF left_piece = End \/ right_piece = End THEN Fault(e, "find(anchor)")
             ELSE
             Bind([e1 \in {redoRangeOp(e, u)} |->
             IF e1.fault # "none" THEN e1
             ELSE
             Bind([e2 \in {update(e1, left_piece, right_piece)} |->
             SetOp(e2, target, [Op(e2, target) EXCEPT !.has_undo = TRUE])])])])])])

\* PieceCRDT::redoOp
redoOp(e, target) ==
    CASE Op(e, target).type = "Insert" -> redoInsertion(e, target)
      [] Op(e, target).type = "Delete" -> redoDel(e, target)
      [] Op(e, target).type \in {"Undo", "Redo"} ->
            Fault(e, "assert cannot redo an undo/redo")
      [] OTHER -> e

\* PieceCRDT::undoOp
undoOp(e, target) ==
    CASE Op(e, target).type = "Insert" -> undoInsertion(e, target)
      [] Op(e, target).type = "Delete" -> undoDel(e, target)
      [] Op(e, target).type \in {"Undo", "Redo"} ->
            Fault(e, "assert cannot undo an undo/redo")
      [] OTHER -> e

\* PieceCRDT::undo and PieceCRDT::redo
RECURSIVE undo(_, _)
RECURSIVE redo(_, _)

\* undo that marks a targeted Undo as undone and stops there
undoNoReroute(e, op) ==
    Bind([r \in {replicas_find(e, op.target.replica)} |->
        IF r = End THEN e
        ELSE IF Len(e.replicas[r].segments) <= op.target.stamp THEN e
        ELSE
        Bind([target \in {<<r, op.target.stamp>>} |->
            Bind([T \in {Op(e, target)} |->
            IF T.type = "None" THEN Fault(e, "deref of empty slot")
            ELSE IF T.has_undo THEN e
            ELSE IF T.type = "Undo"
            THEN SetOp(e, target, [T EXCEPT !.has_undo = TRUE])
            ELSE
            Bind([e1 \in {IF T.type = "Redo"
                      THEN SetOp(e, target, [T EXCEPT !.has_undo = TRUE])
                      ELSE e} |->
                Bind([tgt \in {IF T.type = "Redo" THEN T.target ELSE target} |->
                Bind([st \in {storeOp(e1, op.replica, op.stamp, NewStoredUndo(tgt))} |->
                IF st.e.fault # "none" THEN st.e
                ELSE undoOp(st.e, tgt)])])])])])])

\* undo without the test of target->has_undo
undoUnchecked(e, op) ==
    Bind([r \in {replicas_find(e, op.target.replica)} |->
        IF r = End THEN e
        ELSE IF Len(e.replicas[r].segments) <= op.target.stamp THEN e
        ELSE
        Bind([target \in {<<r, op.target.stamp>>} |->
            Bind([T \in {Op(e, target)} |->
            IF T.type = "None" THEN Fault(e, "deref of empty slot")
            ELSE IF T.type = "Undo"
            THEN redo(SetOp(e, target, [T EXCEPT !.has_undo = TRUE]),
                      [replica |-> op.replica, stamp |-> op.stamp,
                       target |-> [replica |-> ReplicaIdOf(e, T.target),
                                   stamp |-> T.target[2]]])
            ELSE
            Bind([e1 \in {IF T.type = "Redo"
                      THEN SetOp(e, target, [T EXCEPT !.has_undo = TRUE])
                      ELSE e} |->
                Bind([tgt \in {IF T.type = "Redo" THEN T.target ELSE target} |->
                Bind([st \in {storeOp(e1, op.replica, op.stamp, NewStoredUndo(tgt))} |->
                IF st.e.fault # "none" THEN st.e
                ELSE undoOp(st.e, tgt)])])])])])])

\* undo that stores the record with the Redo record as its target
undoStoreRecord(e, op) ==
    Bind([r \in {replicas_find(e, op.target.replica)} |->
        IF r = End THEN e
        ELSE IF Len(e.replicas[r].segments) <= op.target.stamp THEN e
        ELSE
        Bind([target \in {<<r, op.target.stamp>>} |->
            Bind([T \in {Op(e, target)} |->
            IF T.type = "None" THEN Fault(e, "deref of empty slot")
            ELSE IF T.has_undo THEN e
            ELSE IF T.type = "Undo"
            THEN redo(SetOp(e, target, [T EXCEPT !.has_undo = TRUE]),
                      [replica |-> op.replica, stamp |-> op.stamp,
                       target |-> [replica |-> ReplicaIdOf(e, T.target),
                                   stamp |-> T.target[2]]])
            ELSE
            Bind([e1 \in {IF T.type = "Redo"
                      THEN SetOp(e, target, [T EXCEPT !.has_undo = TRUE])
                      ELSE e} |->
                Bind([tgt \in {IF T.type = "Redo" THEN T.target ELSE target} |->
                Bind([st \in {storeOp(e1, op.replica, op.stamp, NewStoredUndo(target))} |->
                IF st.e.fault # "none" THEN st.e
                ELSE undoOp(st.e, tgt)])])])])])])

undo(e, op) ==
    Bind([r \in {replicas_find(e, op.target.replica)} |->
        IF r = End THEN e
        ELSE IF Len(e.replicas[r].segments) <= op.target.stamp THEN e
        ELSE
        Bind([target \in {<<r, op.target.stamp>>} |->
            Bind([T \in {Op(e, target)} |->
            IF T.type = "None" THEN Fault(e, "deref of empty slot")
            ELSE IF T.has_undo THEN e
            ELSE IF T.type = "Undo"
            THEN redo(SetOp(e, target, [T EXCEPT !.has_undo = TRUE]),
                      [replica |-> op.replica, stamp |-> op.stamp,
                       target |-> [replica |-> ReplicaIdOf(e, T.target),
                                   stamp |-> T.target[2]]])
            ELSE
            Bind([e1 \in {IF T.type = "Redo"
                      THEN SetOp(e, target, [T EXCEPT !.has_undo = TRUE])
                      ELSE e} |->
                Bind([tgt \in {IF T.type = "Redo" THEN T.target ELSE target} |->
                Bind([st \in {storeOp(e1, op.replica, op.stamp, NewStoredUndo(tgt))} |->
                IF st.e.fault # "none" THEN st.e
                ELSE undoOp(st.e, tgt)])])])])])])

redo(e, op) ==
    Bind([r \in {replicas_find(e, op.target.replica)} |->
        IF r = End THEN e
        ELSE IF Len(e.replicas[r].segments) <= op.target.stamp THEN e
        ELSE
        Bind([target \in {<<r, op.target.stamp>>} |->
            Bind([T \in {Op(e, target)} |->
            IF T.type = "None" THEN Fault(e, "deref of empty slot")
            ELSE IF ~T.has_undo THEN e
            ELSE IF T.type = "Undo"
            THEN undo(SetOp(e, target, [T EXCEPT !.has_undo = FALSE]),
                      [replica |-> op.replica, stamp |-> op.stamp,
                       target |-> [replica |-> ReplicaIdOf(e, T.target),
                                   stamp |-> T.target[2]]])
            ELSE
            Bind([e1 \in {IF T.type = "Redo"
                      THEN SetOp(e, target, [T EXCEPT !.has_undo = FALSE])
                      ELSE e} |->
                Bind([tgt \in {IF T.type = "Redo" THEN T.target ELSE target} |->
                Bind([st \in {storeOp(e1, op.replica, op.stamp, NewStoredRedo(tgt))} |->
                IF st.e.fault # "none" THEN st.e
                ELSE redoOp(st.e, tgt)])])])])])])

\* the operation records of crdt.hpp
Anchor(replica, stamp, pos) == [replica |-> replica, stamp |-> stamp, pos |-> pos]
OperationID(replica, stamp) == [replica |-> replica, stamp |-> stamp]
Insertion(replica, stamp, anc, str) ==
    [type |-> "Insert", replica |-> replica, stamp |-> stamp, anchor |-> anc,
     str |-> str]
Deletion(replica, stamp, begin, end) ==
    [type |-> "Delete", replica |-> replica, stamp |-> stamp, begin |-> begin,
     end |-> end]
UndoOperation(replica, stamp, target) ==
    [type |-> "Undo", replica |-> replica, stamp |-> stamp, target |-> target]
RedoOperation(replica, stamp, target) ==
    [type |-> "Redo", replica |-> replica, stamp |-> stamp, target |-> target]

\* ---------------------------------------------------------------- oracles
\* the stored operations of an engine, as StoredOperation*
StoredOps(e) ==
    UNION {{<<r, s>> : s \in {k \in 0..(Len(e.replicas[r].segments) - 1) :
                                e.replicas[r].segments[k + 1].type # "None"}} :
           r \in 1..Len(e.replicas)}

\* DocumentValidator::validate
activeDeletes(e) == {p \in StoredOps(e) : Op(e, p).type = "Delete" /\ ~Op(e, p).has_undo}
deleteStart(e, d) == position(e, findAnchor(e, e.tags[Op(e, d).left].anchor)).total
deleteEnd(e, d) == position(e, findAnchor(e, e.tags[Op(e, d).right].anchor)).total
delete_count(e, k) == Cardinality({d \in activeDeletes(e) : deleteStart(e, d) <= k /\ k < deleteEnd(e, d)})

RECURSIVE reconstructed(_, _, _, _)
reconstructed(e, total_str, total_size, i) ==
    IF i > total_size THEN <<>>
    ELSE (IF delete_count(e, i - 1) = 0 THEN <<total_str[i]>> ELSE <<>>)
         \o reconstructed(e, total_str, total_size, i + 1)

validate(e) ==
    reconstructed(e, concatPieces(e, 1, Len(e.piece_tree), TRUE),
                  position(e, pred(e, End)).total, 1) = toString(e)

\* ---------------------------------------------------------------- bounds
MaxDels == 2        \* deletion stamps a history run reserves (numOps)
MaxOps == 5         \* operations of a free run after the initial insert
MaxIns == 1         \* insertions of a free run after the initial insert
HistText == <<"a", "b", "c">>

\* ---------------------------------------------------------------- state
\* doc, doc2     the PieceCRDT objects
\* log, log2     what was applied to doc / doc2: the operation and the
\*               to_string() observed after it
\* op_stamp      the stamp counter of the driver (main.cpp)
\* validator     the SimpleText of the driver: its ops vector
\* pool          the operations in flight to both documents
VARIABLES doc, doc2, log, log2, op_stamp, validator, pool, tree
vars == <<doc, doc2, log, log2, op_stamp, validator, pool, tree>>

Entry(op, e) == [op |-> op, str |-> IF e.fault = "none" THEN toString(e) ELSE <<>>]

\* the entries of a log of one operation type, and their number
Entries(lg, type) == {i \in 1..Len(lg) : lg[i].op.type = type}
NumOf(lg, type) == Cardinality(Entries(lg, type))
StampsOf(lg, type) == {lg[i].op.stamp : i \in Entries(lg, type)}
TargetsOf(lg, type) == {lg[i].op.target.stamp : i \in Entries(lg, type)}

\* main.cpp: PieceCRDT doc; SimpleText validator; uint32_t op_stamp = 1
Init ==
    /\ doc = NewEngine(1)
    /\ doc2 = NewEngine(1)
    /\ log = <<>>
    /\ log2 = <<>>
    /\ op_stamp = 1
    /\ validator = <<>>
    /\ tree = <<>>
    /\ pool = {}

\* the historical size of the text before the sentinel piece
HistSize(e) == position(e, pred(e, End)).total

\* doc becomes e by op
Step(op, e) ==
    /\ doc' = e
    /\ log' = Append(log, Entry(op, e))
    /\ UNCHANGED <<doc2, log2, validator, pool, tree>>

\* runHistoryDeleteUndoRedoTest, step 1: the initial text; the stamps
\* op_stamp .. op_stamp + MaxDels - 1 after it are set aside for deletions
HStart ==
    /\ log = <<>>
    /\ \E op \in {Insertion(doc.local_id, op_stamp, anchor(doc, 0).a, HistText)} :
           Step(op, insert(doc, op))
    /\ op_stamp' = op_stamp + 1 + MaxDels

\* step 2: a deletion of the historical range [l, r) under one of the
\* reserved stamps, anchored in segments of earlier stamps
DelStep ==
    /\ \E s \in (2..(1 + MaxDels)) \ StampsOf(log, "Delete") :
       \E l \in 0..(HistSize(doc) - 1) :
       \E r \in (l + 1)..HistSize(doc) :
          \E op \in {Deletion(doc.local_id, s, historyAnchor(doc, l).a,
                             historyAnchor(doc, r).a)} :
              /\ op.begin.stamp < s
              /\ op.end.stamp < s
              /\ Step(op, del(doc, op))
    /\ UNCHANGED op_stamp

\* step 3: undo of the deletion stamped s
UndoStep(s) ==
    /\ \E op \in {UndoOperation(doc.local_id, op_stamp,
                               OperationID(doc.local_id, s))} :
           Step(op, undo(doc, op))
    /\ op_stamp' = op_stamp + 1

\* step 4: redo of the deletion stamped s
RedoStep(s) ==
    /\ \E op \in {RedoOperation(doc.local_id, op_stamp,
                               OperationID(doc.local_id, s))} :
           Step(op, redo(doc, op))
    /\ op_stamp' = op_stamp + 1

\* the test as main.cpp runs it: the deletions, then every deletion undone
\* once in any order, then every deletion redone once in any order
Testing == log # <<>> /\ doc.fault = "none"
TDel ==
    /\ Testing
    /\ NumOf(log, "Undo") = 0
    /\ DelStep
TUndo ==
    /\ Testing
    /\ NumOf(log, "Redo") = 0
    /\ \E s \in StampsOf(log, "Delete") \ TargetsOf(log, "Undo") : UndoStep(s)
TRedo ==
    /\ Testing
    /\ TargetsOf(log, "Undo") = StampsOf(log, "Delete")
    /\ \E s \in StampsOf(log, "Delete") \ TargetsOf(log, "Redo") : RedoStep(s)

NextTest == HStart \/ TDel \/ TUndo \/ TRedo
SpecTest == Init /\ [][NextTest]_vars

\* free runs: deletions, undos and redos of any deletion in any order
Running == log # <<>> /\ doc.fault = "none" /\ Len(log) <= MaxOps
HDel == Running /\ DelStep
HUndo == Running /\ \E s \in StampsOf(log, "Delete") : UndoStep(s)
HRedo == Running /\ \E s \in StampsOf(log, "Delete") : RedoStep(s)

\* an insertion of one codepoint at a historical position, under a fresh
\* stamp
HInsert ==
    /\ Running
    /\ NumOf(log, "Insert") <= MaxIns
    /\ \E pos \in 0..HistSize(doc) :
          \E op \in {Insertion(doc.local_id, op_stamp, historyAnchor(doc, pos).a,
                              <<"X">>)} :
              Step(op, insert(doc, op))
    /\ op_stamp' = op_stamp + 1

NextHist == HStart \/ HDel \/ HUndo \/ HRedo
SpecHist == Init /\ [][NextHist]_vars

\* the free runs with insertions between the other operations
NextEdit == HStart \/ HDel \/ HUndo \/ HRedo \/ HInsert
SpecEdit == Init /\ [][NextEdit]_vars

\* nested runs: free runs of up to MaxNest deletions, each of the whole
\* text or of its middle codepoint, with their undos and redos
MaxNest == 3
MaxNestOps == 6
NestRanges == {<<0, Len(HistText)>>, <<1, 2>>}
NestRunning == log # <<>> /\ doc.fault = "none" /\ Len(log) <= MaxNestOps
NStart ==
    /\ log = <<>>
    /\ \E op \in {Insertion(doc.local_id, op_stamp, anchor(doc, 0).a, HistText)} :
           Step(op, insert(doc, op))
    /\ op_stamp' = op_stamp + 1 + MaxNest
NDel ==
    /\ NestRunning
    /\ \E s \in (2..(1 + MaxNest)) \ StampsOf(log, "Delete") :
       \E rg \in NestRanges :
          \E op \in {Deletion(doc.local_id, s, historyAnchor(doc, rg[1]).a,
                             historyAnchor(doc, rg[2]).a)} :
              Step(op, del(doc, op))
    /\ UNCHANGED op_stamp
NUndo == NestRunning /\ \E s \in StampsOf(log, "Delete") : UndoStep(s)
NRedo == NestRunning /\ \E s \in StampsOf(log, "Delete") : RedoStep(s)

NextNest == NStart \/ NDel \/ NUndo \/ NRedo
SpecNest == Init /\ [][NextNest]_vars

\* ---------------------------------------------------------------- replay
\* one public operation of PieceCRDT applied to an engine
Apply(e, op) ==
    IF e.fault # "none" THEN e
    ELSE CASE op.type = "Insert" -> insert(e, op)
           [] op.type = "Delete" -> del(e, op)
           [] op.type = "Undo" -> undo(e, op)
           [] op.type = "Redo" -> redo(e, op)

\* does op create the operation t, or undo / redo it
Concerns(op, t) ==
    \/ OperationID(op.replica, op.stamp) = t
    \/ (op.type \in {"Undo", "Redo"} /\ op.target = t)

\* the engine after the operations of lg[1..n] that do not concern skip
RECURSIVE Replay(_, _, _, _)
Replay(e, lg, n, skip) ==
    IF n = 0 THEN e
    ELSE Bind([b \in {Replay(e, lg, n - 1, skip)} |->
             IF Concerns(lg[n].op, skip) THEN b ELSE Apply(b, lg[n].op)])

\* has_undo of the delete t after lg[1..n], as undo / redo set it
RECURSIVE HasUndo(_, _, _)
HasUndo(lg, n, t) ==
    IF n = 0 THEN FALSE
    ELSE IF lg[n].op.type = "Undo" /\ lg[n].op.target = t THEN TRUE
    ELSE IF lg[n].op.type = "Redo" /\ lg[n].op.target = t THEN FALSE
    ELSE HasUndo(lg, n - 1, t)

\* the deletes of an engine that are not undone, and the historical interval
\* of one (the anchors of its tags)
ActiveDels(e) ==
    {p \in StoredOps(e) : Op(e, p).type = "Delete" /\ ~Op(e, p).has_undo}
DelStart(e, d) == position(e, findAnchor(e, e.tags[Op(e, d).left].anchor)).total
DelEnd(e, d) == position(e, findAnchor(e, e.tags[Op(e, d).right].anchor)).total
Covering(e, p) ==
    {d \in ActiveDels(e) :
        /\ DelStart(e, d) <= position(e, p).total
        /\ position(e, p).total + e.pieces[p].len <= DelEnd(e, d)}
Newest(e, S) == CHOOSE d \in S : \A o \in S : o = d \/ OpLess(e, o, d)

\* ---------------------------------------------------------------- two documents
\* Operations made at replicas 1 and 2 reach two documents, each document
\* in its own order, an operation never before the operations it names.
Digits == <<"0", "1", "2", "3", "4", "5", "6", "7", "8", "9">>
Sentinel == Anchor(1, 0, 0)

\* nested deletes of one text, with their undos and a redo
PoolNested ==
    { Insertion(1, 1, Sentinel, Digits),
      Deletion(1, 2, Anchor(1, 1, 2), Anchor(1, 1, 7)),
      Deletion(1, 3, Anchor(1, 1, 4), Anchor(1, 1, 6)),
      UndoOperation(1, 4, OperationID(1, 2)),
      UndoOperation(1, 5, OperationID(1, 3)),
      RedoOperation(1, 6, OperationID(1, 2)) }

\* a delete across a segment that has a child segment
PoolChild ==
    { Insertion(1, 1, Sentinel, <<"h", "e", "l", "l", "o">>),
      Insertion(1, 2, Anchor(1, 1, 3), <<"X", "Y">>),
      Deletion(1, 3, Anchor(1, 1, 1), Anchor(1, 1, 4)),
      UndoOperation(1, 4, OperationID(1, 3)),
      RedoOperation(1, 5, OperationID(1, 3)) }

\* inserts of two replicas at one anchor, and an insert nested in one
PoolSiblings ==
    { Insertion(1, 1, Sentinel, <<"a", "b">>),
      Insertion(1, 2, Anchor(1, 1, 1), <<"x">>),
      Insertion(2, 2, Anchor(1, 1, 1), <<"y">>),
      Insertion(1, 3, Anchor(1, 1, 1), <<"z">>),
      Insertion(2, 4, Anchor(2, 2, 0), <<"n">>) }

\* an insert of one replica and a delete of the other around it
PoolMixed ==
    { Insertion(1, 1, Sentinel, <<"a", "b", "c">>),
      Insertion(2, 2, Anchor(1, 1, 1), <<"X">>),
      Deletion(1, 3, Anchor(1, 1, 0), Anchor(1, 1, 2)),
      UndoOperation(2, 4, OperationID(1, 3)),
      RedoOperation(1, 5, OperationID(1, 3)) }

\* two deletes with a common left endpoint, and their undos
PoolShared ==
    { Insertion(1, 1, Sentinel, <<"a", "b", "c", "d", "e", "f">>),
      Deletion(1, 2, Anchor(1, 1, 1), Anchor(1, 1, 4)),
      Deletion(1, 3, Anchor(1, 1, 1), Anchor(1, 1, 3)),
      UndoOperation(1, 4, OperationID(1, 2)),
      UndoOperation(1, 5, OperationID(1, 3)) }

\* a delete, its undo, and two undos of that undo
PoolReroute ==
    { Insertion(1, 1, Sentinel, <<"a", "b", "c">>),
      Deletion(1, 2, Anchor(1, 1, 1), Anchor(1, 1, 2)),
      UndoOperation(1, 3, OperationID(1, 2)),
      UndoOperation(1, 4, OperationID(1, 3)),
      UndoOperation(1, 5, OperationID(1, 3)) }

\* two inserts, of three codepoints and of one, with undos and a redo
PoolUndoInsert ==
    { Insertion(1, 1, Sentinel, <<"a", "b", "c">>),
      Insertion(1, 2, Sentinel, <<"x">>),
      UndoOperation(1, 3, OperationID(1, 1)),
      RedoOperation(1, 4, OperationID(1, 1)),
      UndoOperation(1, 5, OperationID(1, 1)),
      UndoOperation(1, 6, OperationID(1, 2)) }

\* a text with a codepoint of two bytes, a delete in it and its undo
PoolWide ==
    { Insertion(1, 1, Sentinel, <<"h", "E9", "l", "l", "o">>),
      Deletion(1, 2, Anchor(1, 1, 2), Anchor(1, 1, 3)),
      UndoOperation(1, 3, OperationID(1, 2)) }

\* three deletes that meet at their endpoints, and an undo
PoolTags ==
    { Insertion(1, 1, Sentinel, <<"a", "b", "c">>),
      Deletion(1, 2, Anchor(1, 1, 0), Anchor(1, 1, 2)),
      Deletion(1, 3, Anchor(1, 1, 2), Sentinel),
      Deletion(1, 4, Anchor(1, 1, 0), Anchor(1, 1, 1)),
      UndoOperation(1, 5, OperationID(1, 2)) }

Pools == {PoolNested, PoolChild, PoolSiblings, PoolMixed, PoolShared,
          PoolReroute, PoolUndoInsert, PoolWide, PoolTags}
LocalIds == {1, 2}

IdOf(op) == OperationID(op.replica, op.stamp)
SegOf(a) == OperationID(a.replica, a.stamp)

\* the operations an operation names: the segments of its anchors (the
\* sentinel is in every document), its target, and for an undo / redo the
\* earlier undos and redos of the same target
Refs(M, op) ==
    CASE op.type = "Insert" -> {SegOf(op.anchor)} \ {SegOf(Sentinel)}
      [] op.type = "Delete" ->
            {SegOf(op.begin), SegOf(op.end)} \ {SegOf(Sentinel)}
      [] OTHER ->
            {op.target} \cup
            {IdOf(o) : o \in {u \in M : /\ u.type \in {"Undo", "Redo"}
                                         /\ u.target = op.target
                                         /\ u.stamp < op.stamp}}

Done(lg) == {lg[i].op : i \in 1..Len(lg)}
Ready(M, lg, op) ==
    /\ op \notin Done(lg)
    /\ Refs(M, op) \subseteq {IdOf(o) : o \in Done(lg)}

InitConv ==
    /\ doc \in {NewEngine(i) : i \in LocalIds}
    /\ doc2 \in {NewEngine(i) : i \in LocalIds}
    /\ log = <<>>
    /\ log2 = <<>>
    /\ op_stamp = 1
    /\ validator = <<>>
    /\ tree = <<>>
    /\ pool \in Pools

\* document k receives op and becomes e
Deliver(k, op, e) ==
    /\ IF k = 1
       THEN /\ doc' = e
            /\ log' = Append(log, Entry(op, e))
            /\ UNCHANGED <<doc2, log2>>
       ELSE /\ doc2' = e
            /\ log2' = Append(log2, Entry(op, e))
            /\ UNCHANGED <<doc, log>>
    /\ UNCHANGED <<op_stamp, validator, pool, tree>>

DocOf(k) == IF k = 1 THEN doc ELSE doc2
LogOf(k) == IF k = 1 THEN log ELSE log2
CanTake(k, op, type) ==
    /\ op.type = type
    /\ DocOf(k).fault = "none"
    /\ Ready(pool, LogOf(k), op)

CInsert ==
    \E k \in 1..2 : \E op \in pool :
        CanTake(k, op, "Insert") /\ Deliver(k, op, insert(DocOf(k), op))
CDel ==
    \E k \in 1..2 : \E op \in pool :
        CanTake(k, op, "Delete") /\ Deliver(k, op, del(DocOf(k), op))
CUndo ==
    \E k \in 1..2 : \E op \in pool :
        CanTake(k, op, "Undo") /\ Deliver(k, op, undo(DocOf(k), op))
CRedo ==
    \E k \in 1..2 : \E op \in pool :
        CanTake(k, op, "Redo") /\ Deliver(k, op, redo(DocOf(k), op))

NextConv == CInsert \/ CDel \/ CUndo \/ CRedo
SpecConv == InitConv /\ [][NextConv]_vars

\* ------------------------------------------------- unordered delivery
\* One document receives the operations of a pool through insert, del, undo
\* and redo in any order, before or after the operations they name, and any
\* operation up to MaxApply times.
MaxAny == 4
MaxApply == 2

\* inserts whose anchors name a segment, the insert itself, a delete, and a
\* replica that sent nothing
PoolAnyInsert ==
    { Insertion(1, 1, Sentinel, <<"a", "b", "c">>),
      Insertion(1, 2, Anchor(1, 1, 1), <<"X">>),
      Insertion(1, 3, Anchor(1, 3, 0), <<"s">>),
      Deletion(1, 4, Anchor(1, 1, 0), Anchor(1, 1, 2)),
      Insertion(1, 5, Anchor(1, 4, 0), <<"n">>),
      Insertion(1, 6, Anchor(3, 1, 0), <<"u">>) }

\* undos and a redo of a delete and of an operation of a replica that sent
\* nothing
PoolAnyUndo ==
    { Insertion(1, 1, Sentinel, <<"a", "b", "c">>),
      Deletion(1, 2, Anchor(1, 1, 0), Anchor(1, 1, 2)),
      UndoOperation(1, 3, OperationID(1, 2)),
      RedoOperation(1, 4, OperationID(1, 2)),
      UndoOperation(1, 5, OperationID(3, 1)),
      Insertion(1, 6, Sentinel, <<"x">>) }

\* deletes whose anchors name a segment, a delete, and a replica that sent
\* nothing
PoolAnyDel ==
    { Insertion(1, 1, Sentinel, <<"a", "b", "c">>),
      Deletion(1, 2, Anchor(1, 1, 0), Anchor(1, 1, 2)),
      Deletion(1, 3, Anchor(3, 1, 0), Anchor(1, 1, 2)),
      Deletion(1, 4, Anchor(1, 1, 0), Anchor(1, 2, 0)),
      UndoOperation(1, 5, OperationID(1, 2)),
      RedoOperation(1, 6, OperationID(1, 2)) }

\* operations with small stamps and an insert with the greatest stamp
PoolAnyStamp ==
    { Insertion(1, 1, Sentinel, <<"a", "b", "c">>),
      Deletion(1, 2, Anchor(1, 1, 0), Anchor(1, 1, 2)),
      UndoOperation(1, 3, OperationID(1, 2)),
      RedoOperation(1, 4, OperationID(1, 2)),
      Insertion(1, StampMod - 1, Sentinel, <<"z">>) }

\* an insert anchored in a segment of a greater stamp
PoolAnyParent ==
    { Insertion(1, 5, Sentinel, <<"p">>),
      Insertion(1, 2, Anchor(1, 5, 0), <<"c">>),
      Deletion(1, 6, Anchor(1, 5, 0), Sentinel),
      UndoOperation(1, 7, OperationID(1, 6)) }

\* a delete whose begin and end anchors are equal, an undo of it, and a
\* delete of a range of one codepoint at the same place
PoolAnyEmpty ==
    { Insertion(1, 1, Sentinel, <<"a", "b", "c">>),
      Deletion(1, 2, Anchor(1, 1, 1), Anchor(1, 1, 1)),
      UndoOperation(1, 3, OperationID(1, 2)),
      Deletion(1, 4, Anchor(1, 1, 1), Anchor(1, 1, 2)) }

AnyPools == {PoolAnyInsert, PoolAnyUndo, PoolAnyDel, PoolAnyStamp,
             PoolAnyParent, PoolAnyEmpty}

InitAny ==
    /\ doc \in {NewEngine(i) : i \in LocalIds}
    /\ doc2 = NewEngine(1)
    /\ log = <<>>
    /\ log2 = <<>>
    /\ op_stamp = 1
    /\ validator = <<>>
    /\ tree = <<>>
    /\ pool \in AnyPools

\* how many times the document has received op
Applied(op) == Cardinality({i \in 1..Len(log) : log[i].op = op})
CanApply(op, type) ==
    /\ op.type = type
    /\ doc.fault = "none"
    /\ Len(log) < MaxAny
    /\ Applied(op) < MaxApply

AnyInsert == \E op \in pool : CanApply(op, "Insert") /\ Deliver(1, op, insert(doc, op))
AnyDel == \E op \in pool : CanApply(op, "Delete") /\ Deliver(1, op, del(doc, op))
AnyUndo == \E op \in pool : CanApply(op, "Undo") /\ Deliver(1, op, undo(doc, op))
AnyRedo == \E op \in pool : CanApply(op, "Redo") /\ Deliver(1, op, redo(doc, op))

NextAny == AnyInsert \/ AnyDel \/ AnyUndo \/ AnyRedo
SpecAny == InitAny /\ [][NextAny]_vars

\* ---------------------------------------------------------------- SimpleText
\* SimpleText::insert / SimpleText::erase: the ops vector grows by a record
SimpleText_insert(ops, pos, text) ==
    Append(ops, [id |-> Len(ops) + 1, type |-> "Insert", pos |-> pos,
                 text |-> text, length |-> 0, target_id |-> 0, valid |-> TRUE])
SimpleText_erase(ops, pos, length) ==
    Append(ops, [id |-> Len(ops) + 1, type |-> "Delete", pos |-> pos,
                 text |-> <<>>, length |-> length, target_id |-> 0,
                 valid |-> TRUE])

\* SimpleText::toString: the valid operations replayed on a string
RECURSIVE SimpleText_replay(_, _)
SimpleText_replay(ops, n) ==
    IF n = 0 THEN <<>>
    ELSE Bind([res \in {SimpleText_replay(ops, n - 1)} |->
             Bind([op \in {ops[n]} |->
             IF ~op.valid THEN res
             ELSE IF op.type = "Insert"
             THEN IF op.pos > Len(res) THEN res \o op.text
                  ELSE SubSeq(res, 1, op.pos) \o op.text
                       \o SubSeq(res, op.pos + 1, Len(res))
             ELSE IF op.type = "Delete"
             THEN IF op.pos < Len(res)
                  THEN SubSeq(res, 1, op.pos)
                       \o SubSeq(res, op.pos + Min({op.length, Len(res) - op.pos}) + 1,
                                 Len(res))
                  ELSE res
             ELSE res])])
SimpleText_toString(ops) == SimpleText_replay(ops, Len(ops))

\* ---------------------------------------------------------------- linear edits
\* runInsertTest / runInsertDeleteTest: inserts and deletes at visible
\* positions of one document, mirrored on the SimpleText
MaxEdits == 4
Words == {<<"p">>, <<"q", "r">>}

Editing == doc.fault = "none" /\ Len(log) < MaxEdits

LInsert ==
    /\ Editing
    /\ \E str \in Words : \E insert_pos \in 0..Len(SimpleText_toString(validator)) :
          \E a \in {anchor(doc, insert_pos)} :
              \E op \in {Insertion(doc.local_id, op_stamp, a.a, str)} :
              \E e \in {IF a.ok THEN insert(doc, op) ELSE Fault(doc, "assert in anchor")} :
              /\ validator' = SimpleText_insert(validator, insert_pos, str)
              /\ doc' = e
              /\ log' = Append(log, Entry(op, e))
    /\ op_stamp' = op_stamp + 1
    /\ UNCHANGED <<doc2, log2, pool, tree>>

LDelete ==
    /\ Editing
    /\ \E len \in 1..Len(SimpleText_toString(validator)) :
       \E del_pos \in 0..(Len(SimpleText_toString(validator)) - len) :
          \E b \in {anchor(doc, del_pos)} :
              \E n \in {anchor(doc, del_pos + len)} :
              \E op \in {Deletion(doc.local_id, op_stamp, b.a, n.a)} :
              \E e \in {IF b.ok /\ n.ok THEN del(doc, op)
                   ELSE Fault(doc, "assert in anchor")} :
              /\ validator' = SimpleText_erase(validator, del_pos, len)
              /\ doc' = e
              /\ log' = Append(log, Entry(op, e))
    /\ op_stamp' = op_stamp + 1
    /\ UNCHANGED <<doc2, log2, pool, tree>>

NextLinear == LInsert \/ LDelete
SpecLinear == Init /\ [][NextLinear]_vars

\* ---------------------------------------------------------------- properties
Faultless == doc.fault = "none" /\ doc2.fault = "none"
Last(lg) == lg[Len(lg)]

\* C1 - convergence: two documents that have applied the same set of
\* operations, each in its own order and every operation after the ones it
\* names, have applied them without failure and show the same to_string().
Convergence ==
    (log # <<>> /\ Done(log) = Done(log2))
        => Faultless /\ toString(doc) = toString(doc2)

\* the segments of an engine, the segments inserted inside a segment A
\* (A itself included), and the places of their pieces in the piece tree
Segs(e) == {p \in StoredOps(e) : Op(e, p).type = "Insert"}
RECURSIVE Within(_, _, _)
Within(e, seg, A) ==
    IF seg = A THEN TRUE
    ELSE IF Op(e, seg).parent = NullOp THEN FALSE
    ELSE Within(e, Op(e, seg).parent, A)
PiecesIn(e, A) ==
    {i \in 1..Len(e.piece_tree) : Within(e, e.pieces[e.piece_tree[i]].seg, A)}
SiblingsOrdered(e) ==
    \A A, B \in Segs(e) :
        (/\ A # B
         /\ Op(e, A).parent # NullOp
         /\ Op(e, A).parent = Op(e, B).parent
         /\ Op(e, A).insert_pos = Op(e, B).insert_pos
         /\ OpLess(e, A, B))
        => \A i \in PiecesIn(e, A) : \A j \in PiecesIn(e, B) : i < j

\* C2 - sibling order: whatever inserts of the sibling pool a document has
\* received, in whatever order, it has applied them without failure, the
\* pieces of siblings (with what is nested in them) stand in ascending
\* (stamp, replica) order, and two documents with the same inserts show the
\* same to_string().
SiblingOrder ==
    pool = PoolSiblings =>
        /\ Faultless
        /\ SiblingsOrdered(doc)
        /\ SiblingsOrdered(doc2)
        /\ (Done(log) = Done(log2) => toString(doc) = toString(doc2))

\* C3 - overlap correctness: after every step of a run of deletions, undos
\* and redos, to_string() is the historical text without the codepoints that
\* lie in the range of a deletion that is not undone (what
\* DocumentValidator::validate compares).
Validates == doc.fault = "none" /\ validate(doc)

\* C4 - tombstone invariant: after every operation each piece's tombstone is
\* the greatest deletion, not undone, whose range covers the piece, and
\* null when there is none.
TombOK(e) ==
    \A i \in 1..Len(e.piece_tree) :
        Bind([p \in {e.piece_tree[i]} |->
            e.pieces[p].len > 0 =>
                e.pieces[p].tombStone =
                    (IF Covering(e, p) = {} THEN NullOp
                     ELSE Newest(e, Covering(e, p)))])
TombstoneInvariant == doc.fault = "none" /\ TombOK(doc)

\* C5 - undo / redo inversion: when a deletion that was applied and not
\* undone is undone and then redone, to_string() is what it was before the
\* undo.
UndoRedoCase ==
    Bind([n \in {Len(log)} |->
        /\ n >= 3
        /\ log[n].op.type = "Redo"
        /\ log[n - 1].op.type = "Undo"
        /\ log[n].op.target = log[n - 1].op.target
        /\ ~HasUndo(log, n - 2, log[n].op.target)])
Inversion ==
    UndoRedoCase =>
        doc.fault = "none" /\ Last(log).str = log[Len(log) - 2].str

\* C6 - undo erases the effect: after the undo of a deletion that was
\* applied and not undone, to_string() is that of a document that received
\* the same operations without the deletion.
UndoCase ==
    Bind([n \in {Len(log)} |->
        /\ n >= 2
        /\ log[n].op.type = "Undo"
        /\ ~HasUndo(log, n - 1, log[n].op.target)])
UndoErases ==
    UndoCase =>
        /\ doc.fault = "none"
        /\ Bind([w \in {Replay(NewEngine(1), log, Len(log) - 1, Last(log).op.target)} |->
               w.fault = "none" /\ toString(w) = Last(log).str])

\* C7 - oracle equivalence: after every insert and delete at visible
\* positions, to_string() is the string of the SimpleText that received the
\* same insert(pos, text) and erase(pos, len).
Oracle == doc.fault = "none" /\ toString(doc) = SimpleText_toString(validator)

\* C8 - undo all, redo all: in a run of the test, once every deletion has
\* been undone once (in any order) to_string() is the inserted text, and
\* once every deletion has then been redone once (in any order) to_string()
\* is what it was right after the last deletion was applied.
AllUndone ==
    /\ NumOf(log, "Delete") > 0
    /\ TargetsOf(log, "Undo") = StampsOf(log, "Delete")
    /\ NumOf(log, "Redo") = 0
AllRedone ==
    /\ NumOf(log, "Delete") > 0
    /\ TargetsOf(log, "Redo") = StampsOf(log, "Delete")
UndoAllRedoAll ==
    /\ doc.fault = "none"
    /\ AllUndone => Last(log).str = HistText
    /\ AllRedone => Last(log).str = log[1 + NumOf(log, "Delete")].str
\* every deletion redone: [0,2) and then, under the lower stamp, [1,2)
\* inside it; "c" is what is left again
UndoAllRedoAllWitness ==
    /\ AllRedone
    /\ NumOf(log, "Delete") = 2
    /\ log[2].op.stamp > log[3].op.stamp
    /\ log[2].op.begin.pos = 0
    /\ log[3].op.begin.pos = 1
    /\ log[2].op.end = Anchor(1, 1, 2)
    /\ log[3].op.end = Anchor(1, 1, 2)
    /\ log[5].str = HistText
    /\ Last(log).str = <<"c">>

\* the document of replica 1 received "hello", then its child "XY", then the
\* delete between positions 1 and 4 of "hello"
ChildCase ==
    /\ pool = PoolChild
    /\ doc.local_id = 1
    /\ Len(log) >= 3
    /\ log[2].op.type = "Insert"
    /\ log[3].op.type = "Delete"
ChildStrings(hidden, shown) ==
    ChildCase =>
        /\ doc.fault = "none"
        /\ log[3].str = hidden
        /\ Len(log) >= 4 => log[4].str = shown
        /\ Len(log) >= 5 => log[5].str = hidden

\* C9 as stated - the delete across the child leaves the child visible:
\* "hXYo" after the delete, "helXYlo" after its undo, "hXYo" after its redo.
ChildStaysVisible ==
    ChildStrings(<<"h", "X", "Y", "o">>, <<"h", "e", "l", "X", "Y", "l", "o">>)

\* C9 - the delete across the child hides every piece between its anchors,
\* the child's pieces included: "ho" after the delete, "helXYlo" after its
\* undo, "ho" after its redo.
ChildIsHidden ==
    ChildStrings(<<"h", "o">>, <<"h", "e", "l", "X", "Y", "l", "o">>)
ChildIsHiddenWitness ==
    /\ ChildCase
    /\ Len(log) = 5
    /\ log[4].str = <<"h", "e", "l", "X", "Y", "l", "o">>
    /\ toString(doc) = <<"h", "o">>

\* the stamps of the operations in lg[1..i]
Seen(lg, i) == {lg[j].op.stamp : j \in 1..i}
\* the digits left by d1 = [2,7) and d2 = [4,6), each hidden or not
NestedText(d1, d2) ==
    IF d1 THEN <<"0", "1", "7", "8", "9">>
    ELSE IF d2 THEN <<"0", "1", "2", "3", "6", "7", "8", "9">>
    ELSE Digits
NestedExpected(S) ==
    NestedText(2 \in S /\ (4 \notin S \/ 6 \in S), 3 \in S /\ 5 \notin S)

\* C10 - nested deletes, newer inside older: at the document of replica 1,
\* after each operation of the nested pool, in whichever order d1, d2 and
\* their undos and the redo of d1 arrive, to_string() is the digits without
\* [2,7) while d1 is not undone, else without [4,6) while d2 is not undone,
\* else all digits.
NestedDeletes ==
    (pool = PoolNested /\ doc.local_id = 1) =>
        /\ doc.fault = "none"
        /\ \A i \in 1..Len(log) : log[i].str = NestedExpected(Seen(log, i))
\* d2 applied before d1, then undo(d1), undo(d2), redo(d1)
NestedDeletesWitness ==
    /\ pool = PoolNested
    /\ doc.local_id = 1
    /\ Len(log) = 6
    /\ log[2].op.stamp = 3
    /\ log[3].op.stamp = 2
    /\ log[4].str = <<"0", "1", "2", "3", "6", "7", "8", "9">>
    /\ log[5].str = Digits
    /\ toString(doc) = <<"0", "1", "7", "8", "9">>

\* the historical range [DelFrom, DelTo) of a delete of the one-segment text
\* of a history run (an anchor in the sentinel segment stands at the end)
HistPos(a) == IF a.stamp = 0 THEN Len(HistText) ELSE a.pos
DelFrom(op) == HistPos(op.begin)
DelTo(op) == HistPos(op.end)
Without(text, l, r) == SubSeq(text, 1, l) \o SubSeq(text, r + 1, Len(text))
DeletesUpTo(lg, k) == {i \in 1..k : lg[i].op.type = "Delete"}

\* log[j] is a delete with a lower stamp and a range strictly inside the
\* range of the delete log[i], which was applied before it and is not undone
\* when log[j] is applied
LateInside(i, j) ==
    /\ i < j
    /\ log[i].op.type = "Delete"
    /\ log[j].op.type = "Delete"
    /\ log[j].op.stamp < log[i].op.stamp
    /\ DelFrom(log[i].op) < DelFrom(log[j].op)
    /\ DelTo(log[j].op) < DelTo(log[i].op)
    /\ ~HasUndo(log, j - 1, IdOf(log[i].op))

\* C11 - older inside newer, arriving late: applying the inner delete does
\* not fail and leaves to_string() as it was, and when these are the only
\* deletes and the outer one is then undone while the inner one is not, the
\* undo does not fail and to_string() is the text without exactly the inner
\* range.
NestedLate ==
    \A i, j \in 1..Len(log) :
        LateInside(i, j) =>
            /\ j = Len(log) => doc.fault = "none"
            /\ log[j].str = log[j - 1].str
            /\ \A k \in (j + 1)..Len(log) :
                (/\ log[k].op.type = "Undo"
                 /\ log[k].op.target = IdOf(log[i].op)
                 /\ ~HasUndo(log, k - 1, IdOf(log[i].op))
                 /\ ~HasUndo(log, k - 1, IdOf(log[j].op))
                 /\ DeletesUpTo(log, k) = {i, j})
                => /\ k = Len(log) => doc.fault = "none"
                   /\ log[k].str = Without(HistText, DelFrom(log[j].op),
                                           DelTo(log[j].op))
\* [0,3) under stamp 3, then [1,2) under stamp 2, then the undo of [0,3)
NestedLateWitness ==
    /\ Len(log) = 4
    /\ LateInside(2, 3)
    /\ log[2].str = <<>>
    /\ log[3].str = <<>>
    /\ log[4].op.type = "Undo"
    /\ log[4].op.target = IdOf(log[2].op)
    /\ toString(doc) = <<"a", "c">>

\* the text left by d1 = [1,4) and d2 = [1,3) of "abcdef", each hidden or not
SharedText(d1, d2) ==
    IF d1 THEN <<"a", "e", "f">>
    ELSE IF d2 THEN <<"a", "d", "e", "f">>
    ELSE <<"a", "b", "c", "d", "e", "f">>
SharedExpected(S) == SharedText(2 \in S /\ 4 \notin S, 3 \in S /\ 5 \notin S)

\* C12 - deletes sharing an endpoint: at the document of replica 1, after
\* each operation of the shared-endpoint pool, in whichever order d1, d2 and
\* their undos arrive, to_string() is "aef" while d1 is not undone, else
\* "adef" while d2 is not undone, else "abcdef".
SharedEndpoint ==
    (pool = PoolShared /\ doc.local_id = 1) =>
        /\ doc.fault = "none"
        /\ \A i \in 1..Len(log) : log[i].str = SharedExpected(Seen(log, i))
\* d1, then d2, then undo(d1), then undo(d2)
SharedEndpointWitness ==
    /\ pool = PoolShared
    /\ doc.local_id = 1
    /\ Len(log) = 5
    /\ \A i \in 1..5 : log[i].op.stamp = i
    /\ log[2].str = <<"a", "e", "f">>
    /\ log[3].str = <<"a", "e", "f">>
    /\ log[4].str = <<"a", "d", "e", "f">>
    /\ toString(doc) = <<"a", "b", "c", "d", "e", "f">>

\* the stored operations of e that are marked undone
HasUndoFlags(e) == {o \in StoredOps(e) : Op(e, o).has_undo}
\* "abc" with d1 = [1,2) hidden or not
RerouteExpected(S) ==
    IF 2 \in S /\ (3 \notin S \/ 4 \in S) THEN <<"a", "c">>
    ELSE <<"a", "b", "c">>
RerouteStep ==
    (pool = PoolReroute /\ doc.local_id = 1 /\ log' # log) =>
        /\ doc'.fault = "none"
        /\ toString(doc') = RerouteExpected(Seen(log', Len(log')))
        /\ Last(log').op.stamp = 4 =>
               /\ ~Op(doc', <<replicas_find(doc', 1), 2>>).has_undo
               /\ Op(doc', <<replicas_find(doc', 1), 4>>).type = "Redo"
        /\ Last(log').op.stamp = 5 =>
               /\ toString(doc') = toString(doc)
               /\ HasUndoFlags(doc') = HasUndoFlags(doc)

\* C13 - undo of an undo reroutes: at the document of replica 1, with d1 and
\* u1 = Undo(d1) applied, an Undo of u1 is stored as a Redo of d1, leaves
\* d1.has_undo false and hides d1's range again ("ac"), and a second Undo of
\* u1 changes neither to_string() nor any has_undo flag.
UndoOfUndo == [][RerouteStep]_vars
\* both undos of u1 applied: d1 is active and "b" is hidden
UndoOfUndoWitness ==
    /\ pool = PoolReroute
    /\ doc.local_id = 1
    /\ Len(log) = 5
    /\ log[3].str = <<"a", "b", "c">>
    /\ log[4].str = <<"a", "c">>
    /\ toString(doc) = <<"a", "c">>
    /\ ~Op(doc, <<1, 2>>).has_undo
    /\ Op(doc, <<1, 3>>).has_undo

\* the places in the piece tree of the pieces of segment seg that
\* contribute to to_string()
VisiblePieces(e, seg) ==
    {i \in 1..(Len(e.piece_tree) - 1) :
        /\ e.pieces[e.piece_tree[i]].seg = seg
        /\ e.pieces[e.piece_tree[i]].len > 0
        /\ e.pieces[e.piece_tree[i]].tombStone = NullOp}
\* the segment an undo or redo names, as a stored operation of e
TargetOf(e, op) == <<replicas_find(e, op.target.replica), op.target.stamp>>

\* C14 - an undone insert hides the whole inserted run: when the last
\* operation applied is the undo of an insert, it has completed without
\* failure and no piece of the inserted segment contributes to
\* to_string(), for the segment of three codepoints and for the segment of
\* one.
UndoInsertHides ==
    (pool = PoolUndoInsert /\ log # <<>> /\ Last(log).op.type = "Undo") =>
        /\ doc.fault = "none"
        /\ VisiblePieces(doc, TargetOf(doc, Last(log).op)) = {}

\* C15 - undo and redo of an insert toggle: undo(i) completes without
\* failure, redo(i) right after it restores the string before the undo and
\* leaves i.has_undo false, and a further undo(i) hides the run again.
InsertToggle ==
    pool = PoolUndoInsert =>
        \A k \in 2..Len(log) :
            /\ (log[k].op.stamp \in {3, 4, 5} /\ k = Len(log)) =>
                   /\ doc.fault = "none"
                   /\ Op(doc, TargetOf(doc, log[k].op)).has_undo
                          = (log[k].op.type = "Undo")
            /\ (log[k].op.stamp = 4 /\ log[k - 1].op.stamp = 3) =>
                   log[k].str = log[k - 2].str
            /\ (log[k].op.stamp = 5 /\ k = Len(log)) =>
                   VisiblePieces(doc, TargetOf(doc, log[k].op)) = {}

\* the child insert of the child pool is the last operation applied, after
\* the delete [1,4) around its position 3, and the delete is not undone
InsideActive ==
    /\ pool = PoolChild
    /\ doc.local_id = 1
    /\ log # <<>>
    /\ Last(log).op.stamp = 2
    /\ 3 \in Seen(log, Len(log))
    /\ (4 \notin Seen(log, Len(log)) \/ 5 \in Seen(log, Len(log)))

\* C16 - an insert landing inside an active delete inherits it: after the
\* insert is applied every piece of the new segment has that delete as its
\* tombstone, and to_string() is what it was before the insert.
InsertInheritsTombstone ==
    InsideActive =>
        /\ doc.fault = "none"
        /\ \A i \in 1..Len(doc.piece_tree) :
               doc.pieces[doc.piece_tree[i]].seg = <<1, 2>> =>
                   doc.pieces[doc.piece_tree[i]].tombStone = <<1, 3>>
        /\ Last(log).str = log[Len(log) - 1].str

\* what the claims about dropped and repeated operations compare: the piece
\* tree, the tag tree and the operation store of an engine
Content(e) ==
    [pieces |-> e.pieces, piece_tree |-> e.piece_tree, keys |-> e.keys,
     tags |-> e.tags, deletions |-> e.deletions, replicas |-> e.replicas]
\* the step applies to the document an operation it has applied before
AgainStep == log' # log /\ Last(log').op \in Done(log)
\* the step applies an operation of this type for the first time
FirstStep(type) ==
    /\ log' # log
    /\ Last(log').op.type = type
    /\ Last(log').op \notin Done(log)
Unchanged ==
    /\ doc'.fault = "none"
    /\ Content(doc') = Content(doc)
    /\ toString(doc') = toString(doc)

\* C17 - idempotence: a step that applies an operation whose OperationID
\* the document has already applied completes without failure and leaves
\* to_string(), the piece tree, the tag tree and the operation store as
\* they were.
Idempotence == [][AgainStep => Unchanged]_vars

\* the anchor names no Insert segment stored in e
Unresolved(e, a) == toStored(e, a).seg = NullOp

\* C18 - an insert with an unresolved anchor is dropped: a step that
\* applies, for the first time, an Insert whose anchor names no stored
\* Insert segment completes without failure and leaves the piece tree,
\* to_string() and the slots of the operation store as they were.
DropsInsert ==
    [][(FirstStep("Insert") /\ Unresolved(doc, Last(log').op.anchor))
           => Unchanged]_vars

\* the operation t is missing in e: its replica was never observed, or its
\* stamp is beyond the replica's slots, or its slot is empty
ReplicaOf(e, id) == {i \in 1..Len(e.replicas) : e.replicas[i].id = id}
Missing(e, t) ==
    \A r \in ReplicaOf(e, t.replica) :
        \/ t.stamp >= Len(e.replicas[r].segments)
        \/ e.replicas[r].segments[t.stamp + 1].type = "None"
UndoRedoStep == log' # log /\ Last(log').op.type \in {"Undo", "Redo"}

\* C19 - an undo or redo of a missing target is dropped: a step that
\* applies an Undo or Redo whose target is missing completes without
\* failure and changes no piece, tag, has_undo flag or stored operation.
DropsUndoRedo ==
    [][(UndoRedoStep /\ Missing(doc, Last(log').op.target)) => Unchanged]_vars

\* C20 - a delete with an unresolved anchor is dropped: a step that
\* applies, for the first time, a Delete whose begin or end anchor names no
\* stored Insert segment completes without failure, adds no tag, splits or
\* tombstones no piece and leaves to_string() as it was.
DropsDelete ==
    [][(/\ FirstStep("Delete")
        /\ \/ Unresolved(doc, Last(log').op.begin)
           \/ Unresolved(doc, Last(log').op.end))
           => /\ doc'.fault = "none"
              /\ doc'.tags = doc.tags
              /\ doc'.deletions = doc.deletions
              /\ doc'.pieces = doc.pieces
              /\ doc'.piece_tree = doc.piece_tree
              /\ toString(doc') = toString(doc)]_vars

\* the step applies an Undo to a target that is stored and undone, or a
\* Redo to a target that is stored and not undone
DoubleStep ==
    /\ UndoRedoStep
    /\ ~Missing(doc, Last(log').op.target)
    /\ Op(doc, TargetOf(doc, Last(log').op)).has_undo
           = (Last(log').op.type = "Undo")

\* C21 - double undo / redo is dropped: a step that applies an Undo whose
\* target already has has_undo true, or a Redo whose target has has_undo
\* false, stores no record and leaves pieces, tags, has_undo flags, the
\* clock and to_string() as they were.
DoubleUndoRedo ==
    [][DoubleStep => (Unchanged
                      /\ doc'.lamport_stamp = doc.lamport_stamp)]_vars
\* the delete [0,2) of "abc", its undo, and the same undo again
DoubleUndoRedoWitness ==
    /\ pool = PoolAnyUndo
    /\ doc.local_id = 1
    /\ doc.fault = "none"
    /\ Len(log) = 4
    /\ log[2].op.type = "Delete"
    /\ log[2].str = <<"c">>
    /\ log[3].op = UndoOperation(1, 3, OperationID(1, 2))
    /\ log[4].op = log[3].op
    /\ log[4].str = <<"a", "b", "c">>
    /\ Op(doc, <<1, 2>>).has_undo

\* the replica ids of the runs, and the ids an engine has a record of
ReplicaIds == {1, 2, 3}
KnownIds(e) == {e.replicas[i].id : i \in 1..Len(e.replicas)}
\* replicas.find(id) yields the record of id, and end() when id has none
LookupOK(e) ==
    \A id \in ReplicaIds :
        IF id \in KnownIds(e)
        THEN /\ replicas_find(e, id) # End
             /\ e.replicas[replicas_find(e, id)].id = id
        ELSE replicas_find(e, id) = End
\* every insert and delete of lg is stored in the record of its own replica,
\* in the slot of its stamp
StoredUnderOwnId(e, lg) ==
    \A i \in 1..Len(lg) :
        lg[i].op.type \in {"Insert", "Delete"} =>
            \E r \in ReplicaOf(e, lg[i].op.replica) :
                /\ lg[i].op.stamp < Len(e.replicas[r].segments)
                /\ e.replicas[r].segments[lg[i].op.stamp + 1].type = lg[i].op.type

\* C22 - the operation store is indexed by (replica, stamp): while no
\* operation has failed, a lookup finds the record of exactly the replica
\* asked for, none for a replica that has no record, and every insert and
\* delete applied is stored in the record of its own replica, whatever the
\* order of the replica ids.
IndexedByReplica ==
    doc.fault = "none" => (LookupOK(doc) /\ StoredUnderOwnId(doc, log))

\* what a filled slot holds for good: the kind of the operation and, for an
\* insert, its text
Held(e, p) ==
    <<Op(e, p).type, IF Op(e, p).type = "Insert" THEN Op(e, p).data ELSE <<>>>>
\* a step of the document of replica 1 keeps every filled slot and does not
\* store into a filled slot (storeOp's assert is the failure "assert slot
\* empty")
KeepsSlots ==
    doc.local_id = 1 =>
        /\ doc'.fault # "assert slot empty"
        /\ \A p \in StoredOps(doc) : p \in StoredOps(doc') /\ Held(doc', p) = Held(doc, p)

\* C23 - a slot is written at most once: over any sequence of operations,
\* each applied once and after the operations it names, no step stores into
\* a slot that already holds an operation, undo of an Insert included, and
\* a slot that holds an operation holds the same one after the step.
WrittenOnce == [][KeepsSlots]_vars

\* the operation a step applied has a record in the store of the engine
\* after the step (a dropped undo or redo has none)
Ingested(e, op) ==
    \E r \in ReplicaOf(e, op.replica) :
        /\ op.stamp < Len(e.replicas[r].segments)
        /\ e.replicas[r].segments[op.stamp + 1].type # "None"
\* a step does not wrap the clock (storeOp then indexes past the resized
\* slots: the failure "out of range slot"), and when it completes the clock
\* has not decreased and is greater than the stamp of the operation stored
ClockStep ==
    log' # log =>
        /\ doc'.fault # "out of range slot"
        /\ doc'.fault = "none" =>
               /\ doc'.lamport_stamp >= doc.lamport_stamp
               /\ Ingested(doc', Last(log').op) =>
                      doc'.lamport_stamp > Last(log').op.stamp

\* C24 - Lamport monotonicity: after an operation with stamp s is ingested
\* lamport_stamp is greater than s, and lamport_stamp never decreases, for
\* every stamp value, the greatest one included.
LamportMonotone == [][ClockStep]_vars

\* the historical size of the text of e, and whether the codepoint at the
\* historical offset t is visible
TotalSize(e) == position(e, pred(e, End)).total
VisibleAt(e, t) == e.pieces[findHistory(e, t)].tombStone = NullOp
\* the historical offset of the v-th visible codepoint
HistoryOf(e, v) ==
    CHOOSE t \in 0..(TotalSize(e) - 1) :
        /\ VisibleAt(e, t)
        /\ Cardinality({u \in 0..(t - 1) : VisibleAt(e, u)}) = v
\* historyOffset(historyAnchor(t)) = t for every historical offset
HistoryRoundTrip(e) ==
    \A t \in 0..(TotalSize(e) - 1) :
        /\ historyAnchor(e, t).ok
        /\ findAnchor(e, toStored(e, historyAnchor(e, t).a)) # End
        /\ historyOffset(e, toStored(e, historyAnchor(e, t).a)) = t
\* anchor(v) is on a piece that is not removed, at the historical offset of
\* the v-th visible codepoint
VisibleRoundTrip(e) ==
    \A v \in 0..(size(e) - 1) :
        /\ anchor(e, v).ok
        /\ findAnchor(e, toStored(e, anchor(e, v).a)) # End
        /\ e.pieces[findAnchor(e, toStored(e, anchor(e, v).a))].tombStone = NullOp
        /\ historyOffset(e, toStored(e, anchor(e, v).a)) = HistoryOf(e, v)

\* C25 - anchor round-trip: in every document reached by inserts and
\* deletes, historyOffset(historyAnchor(t)) = t for every historical offset
\* t, and anchor(v) for every visible offset v is an anchor on a piece that
\* is not removed whose historyOffset is the historical offset of the v-th
\* visible codepoint.
AnchorRoundTrip ==
    doc.fault = "none" => (HistoryRoundTrip(doc) /\ VisibleRoundTrip(doc))

\* the number of codepoints of a string of bytes: its bytes that are not
\* continuation bytes
Continuation == {"A9"}
Codepoints(b) == Cardinality({i \in 1..Len(b) : b[i] \notin Continuation})

\* C26 - size() is the number of codepoints of to_string(): in every
\* document that has not failed, size() equals the number of codepoints of
\* to_string(); a new document has to_string() = "" and size() = 0, and
\* after the insert of "hello" alone to_string() = "hello" and size() = 5.
SizeIsLength ==
    doc.fault = "none" =>
        /\ size(doc) = Codepoints(toString(doc))
        /\ log = <<>> => (toString(doc) = <<>> /\ size(doc) = 0)
        /\ (pool = PoolChild /\ Len(log) = 1) =>
               (toString(doc) = <<"h", "e", "l", "l", "o">> /\ size(doc) = 5)

\* the OperationID of a stored operation
StoredId(e, p) == OperationID(ReplicaIdOf(e, p), p[2])
\* stamp first, replica second
StampFirst(a, b) ==
    a.stamp < b.stamp \/ (a.stamp = b.stamp /\ a.replica < b.replica)

\* C27 - the order of OperationIDs: for the OperationIDs a and b of any two
\* operations stored in a document, a < b exactly when a.stamp < b.stamp, or
\* the stamps are equal and a.replica < b.replica, and exactly when the
\* stored operation of a is less than the stored operation of b.
OperationIDOrder ==
    doc.fault = "none" =>
        \A p, q \in StoredOps(doc) :
            /\ OperationIDLess(StoredId(doc, p), StoredId(doc, q))
                   = StampFirst(StoredId(doc, p), StoredId(doc, q))
            /\ OperationIDLess(StoredId(doc, p), StoredId(doc, q))
                   = OpLess(doc, p, q)

\* the segments of e that have a piece in the piece tree, the EOF segment
\* the document was constructed with excepted
Placed(e) ==
    {e.pieces[e.piece_tree[i]].seg : i \in 1..Len(e.piece_tree)}
        \ {g \in Segs(e) : g[2] = 0 /\ ReplicaIdOf(e, g) = e.local_id}
\* the parent of seg is another stored Insert, of a stamp not greater
ParentOK(e, seg) ==
    /\ Op(e, seg).parent # NullOp
    /\ Op(e, seg).parent # seg
    /\ Op(e, seg).parent \in Segs(e)
    /\ Op(e, seg).parent[2] <= seg[2]

\* C28 - every insert in the piece tree has a parent: in every document
\* that has not failed, each segment with a piece, the EOF segment
\* excepted, has a parent that is a different stored Insert with a stamp
\* not greater than its own; an insert without such a parent has no piece.
ParentInvariant ==
    doc.fault = "none" => \A seg \in Placed(doc) : ParentOK(doc, seg)

\* the i-th tag of the tag tree of e, and the historical offset of its anchor
TagAt(e, i) == e.tags[e.deletions[i]]
TagOffset(e, i) == historyOffset(e, TagAt(e, i).anchor)
\* the i-th tag may stand before the j-th
TagBefore(e, i, j) ==
    \/ TagOffset(e, i) < TagOffset(e, j)
    \/ /\ TagOffset(e, i) = TagOffset(e, j)
       /\ IF TagAt(e, i).is_left # TagAt(e, j).is_left THEN TagAt(e, j).is_left
          ELSE IF TagAt(e, i).is_left
          THEN OpLess(e, TagAt(e, j).cur, TagAt(e, i).cur)
          ELSE OpLess(e, TagAt(e, i).cur, TagAt(e, j).cur)
TagsOrdered(e) ==
    /\ \A i \in 1..Len(e.deletions) : findAnchor(e, TagAt(e, i).anchor) # End
    /\ \A i, j \in 1..Len(e.deletions) : i < j => TagBefore(e, i, j)

\* C29 - tag-tree order: in every document that has not failed, the tags of
\* the range-tag tree stand in non-decreasing historical offset of their
\* anchors; at equal offset every right tag precedes every left tag, left
\* tags are in descending order of cur and right tags in ascending order.
TagOrder == doc.fault = "none" => TagsOrdered(doc)
\* a right tag and a left tag at one offset, and two left tags at one offset
TagOrderWitness ==
    /\ pool = PoolTags
    /\ doc.fault = "none"
    /\ TagsOrdered(doc)
    /\ \E i, j \in 1..Len(doc.deletions) :
           /\ i < j
           /\ TagOffset(doc, i) = TagOffset(doc, j)
           /\ ~TagAt(doc, i).is_left
           /\ TagAt(doc, j).is_left
    /\ \E i, j \in 1..Len(doc.deletions) :
           /\ i < j
           /\ TagOffset(doc, i) = TagOffset(doc, j)
           /\ TagAt(doc, i).is_left
           /\ TagAt(doc, j).is_left

\* the old pointer of the tag is null or a range op older than its cur
GoodOld(e, tag) ==
    /\ tag.old # Bad
    /\ tag.old = NullOp \/ OpLess(e, tag.old, tag.cur)
OldsGood(e) ==
    \A i \in 1..Len(e.deletions) :
        TagAt(e, i).status # "UnUsed" => GoodOld(e, TagAt(e, i))

\* C30 - old pointers are good: after every public operation that
\* completes, every tag whose status is not UnUsed has an old pointer that
\* is null or a range op older than the tag's own cur, never the bad
\* sentinel.
OldInvariant == doc.fault = "none" => OldsGood(doc)

\* the places in the piece tree of the pieces of segment seg
SegPlaces(e, seg) ==
    {i \in 1..Len(e.piece_tree) : e.pieces[e.piece_tree[i]].seg = seg}
PieceAt(e, i) == e.pieces[e.piece_tree[i]]
\* the piece at place i of its segment starts where the one before it ends
\* (at 0 when it is the first), its data pointer is the byte offset of its
\* seg_pos, and the last one ends the segment and is its last_piece
PartitionAt(e, seg, i) ==
    /\ PieceAt(e, i).data = advance(Op(e, seg).data, 0, PieceAt(e, i).seg_pos)
    /\ (\A j \in SegPlaces(e, seg) : j >= i) => PieceAt(e, i).seg_pos = 0
    /\ \A j \in SegPlaces(e, seg) :
           (j < i /\ \A k \in SegPlaces(e, seg) : ~(j < k /\ k < i))
               => PieceAt(e, i).seg_pos
                      = PieceAt(e, j).seg_pos + PieceAt(e, j).len
    /\ (\A j \in SegPlaces(e, seg) : j <= i)
           => /\ PieceAt(e, i).seg_pos + PieceAt(e, i).len = Len(Op(e, seg).data)
              /\ Op(e, seg).last_piece = e.piece_tree[i]
Partitioned(e) ==
    \A seg \in Segs(e) : \A i \in SegPlaces(e, seg) : PartitionAt(e, seg, i)

\* C31 - segment partition: after any sequence of inserts, splits and tag
\* additions, the pieces of each segment, in piece-tree order, have
\* contiguous seg_pos ranges starting at 0, their texts concatenate to the
\* segment's data, and the segment's last_piece is the last of them.
SegmentPartition ==
    /\ doc.fault = "none" => Partitioned(doc)
    /\ doc2.fault = "none" => Partitioned(doc2)
SegmentPartitionWitness ==
    /\ pool = PoolWide
    /\ doc.fault = "none"
    /\ \E seg \in Segs(doc) :
           /\ Cardinality(SegPlaces(doc, seg)) >= 3
           /\ \E i \in SegPlaces(doc, seg) :
                  PieceAt(doc, i).data # PieceAt(doc, i).seg_pos

\* child a sorts before child b by (insert_pos, stamp, replica id)
ChildBefore(e, a, b) ==
    \/ Op(e, a).insert_pos < Op(e, b).insert_pos
    \/ /\ Op(e, a).insert_pos = Op(e, b).insert_pos
       /\ \/ a[2] < b[2]
          \/ a[2] = b[2] /\ ReplicaIdOf(e, a) < ReplicaIdOf(e, b)
\* split_child of seg is ascending, and children inserted at one position
\* have their pieces in the piece tree in the order of split_child
ChildrenSorted(e, seg) ==
    \A i, j \in 1..Len(Op(e, seg).split_child) :
        i < j =>
            /\ ChildBefore(e, Op(e, seg).split_child[i], Op(e, seg).split_child[j])
            /\ Op(e, Op(e, seg).split_child[i]).insert_pos
                   = Op(e, Op(e, seg).split_child[j]).insert_pos
               => \A x \in SegPlaces(e, Op(e, seg).split_child[i]) :
                  \A y \in SegPlaces(e, Op(e, seg).split_child[j]) : x < y
SplitChildOrdered(e) == \A seg \in Segs(e) : ChildrenSorted(e, seg)

\* C32 - split_child order: after any sequence of inserts in any arrival
\* order, each segment's split_child list is ascending by (insert_pos,
\* stamp, replica), and children with equal insert_pos appear in the piece
\* tree in the order they have in split_child.
SplitChildOrder ==
    /\ doc.fault = "none" => SplitChildOrdered(doc)
    /\ doc2.fault = "none" => SplitChildOrdered(doc2)
SplitChildOrderWitness ==
    /\ pool = PoolSiblings
    /\ doc.fault = "none"
    /\ \E seg \in Segs(doc) :
           /\ Len(Op(doc, seg).split_child) = 3
           /\ \A i \in 1..3 : Op(doc, Op(doc, seg).split_child[i]).insert_pos = 1
           /\ \A i \in 1..3 : SegPlaces(doc, Op(doc, seg).split_child[i]) # {}
    /\ \E i, j \in 1..Len(log) :
           /\ i < j
           /\ log[i].op.type = "Insert"
           /\ log[j].op.type = "Insert"
           /\ log[i].op.anchor = log[j].op.anchor
           /\ log[i].op.stamp > log[j].op.stamp

\* ------------------------------------------- undo and redo of records
\* Two documents of replica 1 receive, each in its own causal order, undo
\* and redo requests whose targets are Undo and Redo records.
PoolRetargetRedo ==
    { Insertion(1, 1, Sentinel, <<"a", "b", "c">>),
      Deletion(1, 2, Anchor(1, 1, 1), Anchor(1, 1, 2)),
      UndoOperation(1, 3, OperationID(1, 2)),
      RedoOperation(1, 4, OperationID(1, 2)),
      UndoOperation(1, 5, OperationID(1, 2)),
      UndoOperation(2, 6, OperationID(1, 4)),
      RedoOperation(2, 7, OperationID(1, 4)) }
PoolRetargetUndo ==
    { Insertion(1, 1, Sentinel, <<"a", "b", "c">>),
      Deletion(1, 2, Anchor(1, 1, 1), Anchor(1, 1, 2)),
      UndoOperation(1, 3, OperationID(1, 2)),
      UndoOperation(2, 4, OperationID(1, 3)),
      RedoOperation(2, 5, OperationID(1, 3)),
      RedoOperation(1, 6, OperationID(1, 2)) }
RetargetPools == {PoolRetargetRedo, PoolRetargetUndo}

InitRetarget ==
    /\ doc = NewEngine(1)
    /\ doc2 = NewEngine(1)
    /\ log = <<>>
    /\ log2 = <<>>
    /\ op_stamp = 1
    /\ validator = <<>>
    /\ tree = <<>>
    /\ pool \in RetargetPools
SpecRetarget == InitRetarget /\ [][NextConv]_vars

\* the stored Undo and Redo records of e
Records(e) == {p \in StoredOps(e) : Op(e, p).type \in {"Undo", "Redo"}}
TargetsPlain(e) ==
    \A p \in Records(e) :
        /\ Op(e, p).target \in StoredOps(e)
        /\ Op(e, Op(e, p).target).type \in {"Insert", "Delete"}

\* C33 - flat targets: the target of every stored Undo or Redo record is an
\* Insert or a range operation, never an Undo or Redo record, so the call
\* undo makes to redo (and redo to undo) for a record finds a target that
\* is no record and goes no further.
FlatTargets ==
    /\ doc.fault = "none" => TargetsPlain(doc)
    /\ doc2.fault = "none" => TargetsPlain(doc2)
FlatTargetsWitness ==
    /\ doc.fault = "none"
    /\ pool = PoolRetargetRedo
    /\ \E p, q \in Records(doc) :
           /\ p[2] = 6 /\ Op(doc, p).type = "Undo"
           /\ q[2] = 7 /\ Op(doc, q).type = "Redo"
           /\ Op(doc, Op(doc, p).target).type = "Delete"
           /\ Op(doc, Op(doc, q).target).type = "Delete"

\* the pieces after split(it, pos): a new piece [seg_pos, seg_pos + pos)
\* immediately before it, it itself cut to [seg_pos + pos, seg_pos + len),
\* both with the tombstone it had, and every other piece as it was
SplitPieces(e, it, pos) ==
    /\ split(e, it, pos).e.fault = "none"
    /\ split(e, it, pos).it \notin DOMAIN e.pieces
    /\ split(e, it, pos).e.piece_tree
           = InsertAt(e.piece_tree, index(e, it), split(e, it, pos).it)
    /\ split(e, it, pos).e.pieces[split(e, it, pos).it]
           = [e.pieces[it] EXCEPT !.len = pos]
    /\ split(e, it, pos).e.pieces[it].seg = e.pieces[it].seg
    /\ split(e, it, pos).e.pieces[it].seg_pos = e.pieces[it].seg_pos + pos
    /\ split(e, it, pos).e.pieces[it].len = e.pieces[it].len - pos
    /\ split(e, it, pos).e.pieces[it].tombStone = e.pieces[it].tombStone
    /\ \A p \in DOMAIN e.pieces \ {it} : split(e, it, pos).e.pieces[p] = e.pieces[p]
\* the historical text and to_string() after split(it, pos) are the ones
\* before it
SplitText(e, it, pos) ==
    /\ concatPieces(split(e, it, pos).e, 1, Len(e.piece_tree) + 1, TRUE)
           = concatPieces(e, 1, Len(e.piece_tree), TRUE)
    /\ toString(split(e, it, pos).e) = toString(e)
\* the pieces of the inserted segments (not of the EOF segment)
TextPlaces(e) == UNION {SegPlaces(e, seg) : seg \in Placed(e)}
SplitKeeps(e) ==
    \A i \in TextPlaces(e) :
        \A pos \in 0..(PieceAt(e, i).len - 1) :
            /\ SplitPieces(e, e.piece_tree[i], pos)
            /\ SplitText(e, e.piece_tree[i], pos)
SplitKeepsPieces(e) ==
    \A i \in TextPlaces(e) :
        \A pos \in 0..(PieceAt(e, i).len - 1) :
            SplitPieces(e, e.piece_tree[i], pos)

\* C34 - frame of split: split(cursor, pos) with pos < len leaves the
\* historical text, the visible text and every other piece unchanged; it
\* inserts a new left piece of length pos immediately before the piece,
\* which keeps its identity and now starts at seg_pos + pos with length
\* len - pos; both halves carry the tombstone the piece had.
SplitFrame == doc.fault = "none" => SplitKeeps(doc)

\* ------------------------------------------------------ gb+tree.hpp
\* The grow-only B+tree under Sequence (the piece tree) and OrderedSet (the
\* tag tree, the replicas).  A tree is a record: kind ("Sequence" /
\* "OrderedSet"), nodes (the Node objects, a node pointer is its place in
\* the sequence, 0 is nullptr), cells (the PinnedCell objects), root, first,
\* last, sz and sentinel (the SentinelNode).  A node holds is_leaf, index,
\* count, parent, the arrays keys and subs of ORDER entries (entry i of the
\* code is entry i + 1 here), and for a leaf prev and next; Special stands
\* for the tagged pointer to the sentinel.
N == 2
ORDER == 2 * N - 1
Special == -1
KeyZero(kind) ==
    IF kind = "Sequence" THEN [total |-> 0, visible |-> 0] ELSE 0
NewNode(kind, leaf) ==
    [is_leaf |-> leaf, index |-> 0, count |-> 0, parent |-> 0,
     keys |-> [i \in 1..ORDER |-> KeyZero(kind)],
     subs |-> [i \in 1..ORDER |-> 0], prev |-> 0, next |-> 0]
\* BPlusTree::BPlusTree
BPlusTree(kind) ==
    [kind |-> kind,
     nodes |-> <<[NewNode(kind, TRUE) EXCEPT !.next = Special]>>,
     cells |-> <<>>, root |-> 1, first |-> 1, last |-> 1, sz |-> 0,
     sentinel |-> [node |-> 1, index |-> 0]]

\* LeafNode::get / KeyOnlyLeafNode::get (cellOf(keys[index])), and the child
\* of an internal node
NodeGet(t, n, idx) ==
    IF t.nodes[n].is_leaf /\ t.kind = "OrderedSet"
    THEN t.nodes[n].keys[idx + 1]
    ELSE t.nodes[n].subs[idx + 1]
\* set that leaves the index of the cell as it was
NodeSetKeepIndex(t, n, idx, key, x) ==
    IF t.nodes[n].is_leaf
    THEN [t EXCEPT !.cells[x].node = n,
                   !.nodes[n].keys[idx + 1] = key,
                   !.nodes[n].subs[idx + 1] =
                       IF t.kind = "Sequence" THEN x ELSE @]
    ELSE IF x # 0
    THEN [t EXCEPT !.nodes[n].keys[idx + 1] = key,
                   !.nodes[n].subs[idx + 1] = x,
                   !.nodes[x].index = idx, !.nodes[x].parent = n]
    ELSE [t EXCEPT !.nodes[n].keys[idx + 1] = key,
                   !.nodes[n].subs[idx + 1] = x]

\* InternalNode::set, LeafNode::set, KeyOnlyLeafNode::set
NodeSet(t, n, idx, key, x) ==
    IF t.nodes[n].is_leaf
    THEN [t EXCEPT !.cells[x].node = n, !.cells[x].index = idx,
                   !.nodes[n].keys[idx + 1] = key,
                   !.nodes[n].subs[idx + 1] =
                       IF t.kind = "Sequence" THEN x ELSE @]
    ELSE IF x # 0
    THEN [t EXCEPT !.nodes[n].keys[idx + 1] = key,
                   !.nodes[n].subs[idx + 1] = x,
                   !.nodes[x].index = idx, !.nodes[x].parent = n]
    ELSE [t EXCEPT !.nodes[n].keys[idx + 1] = key,
                   !.nodes[n].subs[idx + 1] = x]
\* move(index1, index2) and move(index1, other, index2)
NodeMove(t, n, index1, other, index2) ==
    NodeSet(t, other, index2, t.nodes[n].keys[index1 + 1], NodeGet(t, n, index1))

\* for (i = from; i > idx; --i) node->move(i - 1, i)
RECURSIVE MoveUp(_, _, _, _)
MoveUp(t, n, i, idx) ==
    IF i > idx THEN MoveUp(NodeMove(t, n, i - 1, n, i), n, i - 1, idx)
    ELSE t
\* for (i = from; i >= to; --i) node->move(i - 1, new_node, i - N), and with
\* i > idx for to = idx + 1
RECURSIVE MoveOut(_, _, _, _, _)
MoveOut(t, n, new_node, i, to) ==
    IF i >= to
    THEN MoveOut(NodeMove(t, n, i - 1, new_node, i - N), n, new_node, i - 1, to)
    ELSE t
\* for (i = from; i >= N; --i) node->move(i, new_node, i - N)
RECURSIVE MoveRest(_, _, _, _)
MoveRest(t, n, new_node, i) ==
    IF i >= N
    THEN MoveRest(NodeMove(t, n, i, new_node, i - N), n, new_node, i - 1)
    ELSE t

\* AddSummarizer / MaxSummarizer over the first count keys of node n
RECURSIVE AddKeys(_, _)
AddKeys(keys, count) ==
    IF count = 0 THEN [total |-> 0, visible |-> 0]
    ELSE [total |-> AddKeys(keys, count - 1).total + keys[count].total,
          visible |-> AddKeys(keys, count - 1).visible + keys[count].visible]
Summarizer(t, n) ==
    IF t.kind = "Sequence" THEN AddKeys(t.nodes[n].keys, t.nodes[n].count)
    ELSE t.nodes[n].keys[t.nodes[n].count]

\* the loop at the end of insertNode and Sequence::update(Iterator): carry
\* the summary of current up until a parent key is already equal
RECURSIVE Propagate(_, _)
Propagate(t, current) ==
    IF t.nodes[current].parent = 0 THEN t
    ELSE IF Summarizer(t, current)
              # t.nodes[t.nodes[current].parent].keys[t.nodes[current].index + 1]
    THEN Propagate([t EXCEPT !.nodes[t.nodes[current].parent]
                                .keys[t.nodes[current].index + 1]
                                 = Summarizer(t, current)],
                   t.nodes[current].parent)
    ELSE t

\* BPlusTree::insertNode
insertNode(t, n, idx, key, x) ==
    Bind([t1 \in {NodeSet(MoveUp(t, n, t.nodes[n].count, idx), n, idx, key, x)} |->
        Propagate([t1 EXCEPT !.nodes[n].count = @ + 1], n)])

\* BPlusTree::splitNode (returns the tree and new_node) and insertInternal
RECURSIVE splitNode(_, _, _, _, _)
RECURSIVE insertInternal(_, _, _, _, _)
splitNode(t, n, idx, key, x) ==
    Bind([new_node \in {Len(t.nodes) + 1} |->
        Bind([t1 \in {[t EXCEPT !.nodes =
                        Append(@, NewNode(t.kind, t.nodes[n].is_leaf))]} |->
        Bind([t2 \in {IF idx < N
                  THEN NodeSet(MoveUp(MoveOut(t1, n, new_node, ORDER, N),
                                      n, N - 1, idx),
                               n, idx, key, x)
                  ELSE NodeSet(MoveRest(MoveOut(t1, n, new_node, ORDER, idx + 1),
                                        n, new_node, idx - 1),
                               new_node, idx - N, key, x)} |->
        Bind([t3 \in {[t2 EXCEPT !.nodes[n].count = N,
                              !.nodes[new_node].count = N]} |->
        IF t3.nodes[n].parent # 0
        THEN [t |-> insertInternal(
                        [t3 EXCEPT !.nodes[t3.nodes[n].parent]
                                      .keys[t3.nodes[n].index + 1]
                                       = Summarizer(t3, n)],
                        t3.nodes[n].parent, t3.nodes[n].index + 1,
                        Summarizer(t3, new_node), new_node),
              new_node |-> new_node]
        ELSE
        Bind([new_root \in {Len(t3.nodes) + 1} |->
            Bind([t4 \in {[t3 EXCEPT !.nodes = Append(@, NewNode(t.kind, FALSE))]} |->
            Bind([t5 \in {NodeSet(t4, new_root, 0, Summarizer(t4, n), n)} |->
            Bind([t6 \in {NodeSet(t5, new_root, 1, Summarizer(t5, new_node), new_node)} |->
            [t |-> [t6 EXCEPT !.nodes[new_root].count = 2, !.root = new_root],
             new_node |-> new_node]])])])])])])])])
insertInternal(t, n, idx, key, child) ==
    IF t.nodes[n].count < ORDER THEN insertNode(t, n, idx, key, child)
    ELSE splitNode(t, n, idx, key, child).t

\* BPlusTree::insertLeaf: the tree and the BaseIter (node, idx) of the
\* new element
insertLeaf(t, leaf, idx, key, cell) ==
    Bind([t0 \in {[t EXCEPT !.sz = @ + 1]} |->
        IF t0.nodes[leaf].count < ORDER
        THEN [t |-> insertNode(t0, leaf, idx, key, cell),
              node |-> leaf, index |-> idx]
        ELSE
        Bind([s \in {splitNode(t0, leaf, idx, key, cell)} |->
            Bind([nxt \in {s.t.nodes[leaf].next} |->
            Bind([t1 \in {IF nxt = Special
                      THEN [s.t EXCEPT !.last = s.new_node,
                                       !.sentinel.node = s.new_node]
                      ELSE [s.t EXCEPT !.nodes[nxt].prev = s.new_node]} |->
            [t |-> [t1 EXCEPT !.nodes[s.new_node].next = nxt,
                              !.nodes[s.new_node].prev = leaf,
                              !.nodes[leaf].next = s.new_node],
             node |-> IF idx < N THEN leaf ELSE s.new_node,
             index |-> IF idx < N THEN idx ELSE idx - N]])])])])

\* PinnedIter: an iterator is the cell it points at, or Special for end()
toBaseIter(t, it) ==
    IF it # Special
    THEN [node |-> t.cells[it].node, index |-> t.cells[it].index]
    ELSE [node |-> t.sentinel.node, index |-> t.nodes[t.sentinel.node].count]
\* PinnedIter::operator++
IterNext(t, it) ==
    IF t.cells[it].index + 1 < t.nodes[t.cells[it].node].count
    THEN NodeGet(t, t.cells[it].node, t.cells[it].index + 1)
    ELSE IF t.nodes[t.cells[it].node].next = Special THEN Special
    ELSE NodeGet(t, t.nodes[t.cells[it].node].next, 0)
\* the cells forward iteration visits from it to end(), at most fuel of them
RECURSIVE Visit(_, _, _)
Visit(t, it, fuel) ==
    IF it = Special \/ fuel = 0 THEN <<>>
    ELSE <<it>> \o Visit(t, IterNext(t, it), fuel - 1)
\* begin() .. end()
Elements(t) ==
    IF t.sz = 0 THEN <<>> ELSE Visit(t, NodeGet(t, t.first, 0), t.sz + 1)

\* Sequence::Iterator::update: the keys before the cell in its leaf and
\* before each ancestor in its parent
RECURSIVE OffsetFrom(_, _, _)
OffsetFrom(t, current, idx) ==
    IF current = 0 THEN [total |-> 0, visible |-> 0]
    ELSE [total |-> AddKeys(t.nodes[current].keys, idx).total
                      + OffsetFrom(t, t.nodes[current].parent,
                                   t.nodes[current].index).total,
          visible |-> AddKeys(t.nodes[current].keys, idx).visible
                      + OffsetFrom(t, t.nodes[current].parent,
                                   t.nodes[current].index).visible]
\* Iterator(V *val).position()
IteratorPosition(t, cell) == OffsetFrom(t, t.cells[cell].node, t.cells[cell].index)

\* Sequence::insertBefore: the tree and the iterator of the new element
Sequence_insertBefore(t, it, value) ==
    Bind([cell \in {Len(t.cells) + 1} |->
        Bind([base_it \in {toBaseIter(t, it)} |->
        Bind([r \in {insertLeaf([t EXCEPT !.cells = Append(@, [node |-> 0, index |-> 0,
                                                           value |-> value])],
                            base_it.node, base_it.index, PieceSize(value), cell)} |->
        [t |-> r.t, it |-> NodeGet(r.t, r.node, r.index)]])])])

\* Sequence::update(begin, end).  stack[l] of the code is st[l + 1].
RECURSIVE PathUp(_, _)
PathUp(t, n) ==
    IF n = 0 THEN <<>> ELSE <<n>> \o PathUp(t, t.nodes[n].parent)
\* current->keys[i] = current->subs[i]->value.size()
RefreshLeaf(t, n) ==
    [t EXCEPT !.nodes[n].keys =
        [i \in 1..ORDER |->
            IF i <= t.nodes[n].count
            THEN PieceSize(t.cells[t.nodes[n].subs[i]].value) ELSE @[i]]]
\* the loop over l that carries the summaries up and stops at the first
\* level with a next sibling, which replaces stack[l - 1]
RECURSIVE Ascend(_, _, _)
Ascend(t, st, l) ==
    IF l >= Len(st) THEN [t |-> t, st |-> st, l |-> l]
    ELSE
    Bind([idx \in {t.nodes[st[l]].index} |->
        Bind([t1 \in {[t EXCEPT !.nodes[st[l + 1]].keys[idx + 1] =
                        AddKeys(t.nodes[st[l]].keys, t.nodes[st[l]].count)]} |->
        IF idx + 1 < t1.nodes[st[l + 1]].count
        THEN [t |-> t1,
              st |-> [st EXCEPT ![l] = t1.nodes[st[l + 1]].subs[idx + 2]],
              l |-> l]
        ELSE Ascend(t1, st, l + 1)])])
\* update(begin, end) without the summaries above the last leaf
FinishNone(t, st, l) == t

\* for (++l; l < stack.size(); ++l): the summaries above the last leaf
RECURSIVE Finish(_, _, _)
Finish(t, st, l) ==
    IF l >= Len(st) THEN t
    ELSE Finish([t EXCEPT !.nodes[st[l + 1]].keys[t.nodes[st[l]].index + 1] =
                    AddKeys(t.nodes[st[l]].keys, t.nodes[st[l]].count)],
                st, l + 1)
\* for (l = l - 1; l > 0; --l) stack[l - 1] = stack[l]->subs[0]
RECURSIVE Descend(_, _, _)
Descend(t, st, l) ==
    IF l > 0 THEN Descend(t, [st EXCEPT ![l] = t.nodes[st[l + 1]].subs[1]], l - 1)
    ELSE st
RECURSIVE UpdateLoop(_, _, _)
UpdateLoop(t, st, end_leaf) ==
    Bind([a \in {Ascend(RefreshLeaf(t, st[1]), st, 1)} |->
        IF st[1] = end_leaf THEN Finish(a.t, a.st, a.l + 1)
        ELSE UpdateLoop(a.t, Descend(a.t, a.st, a.l - 1), end_leaf)])
Sequence_update(t, begin, end) ==
    UpdateLoop(t, PathUp(t, t.cells[begin].node), t.cells[end].node)

\* OrderedSet::find: std::lower_bound over the keys of each node on the way
\* down, by the values the keys point at
LowerBound(t, current, key) ==
    Min({i \in 0..(t.nodes[current].count - 1) :
             ~(t.cells[t.nodes[current].keys[i + 1]].value < key)}
        \cup {t.nodes[current].count})
RECURSIVE OrderedSet_find(_, _, _)
OrderedSet_find(t, current, key) ==
    IF LowerBound(t, current, key) >= t.nodes[current].count THEN Special
    ELSE IF t.nodes[current].is_leaf
    THEN NodeGet(t, current, LowerBound(t, current, key))
    ELSE OrderedSet_find(t, t.nodes[current].subs[LowerBound(t, current, key) + 1], key)
\* OrderedSet::insert
OrderedSet_insert(t, value) ==
    Bind([cell \in {Len(t.cells) + 1} |->
        Bind([base_it \in {toBaseIter(t, OrderedSet_find(t, t.root, value))} |->
        Bind([r \in {insertLeaf([t EXCEPT !.cells = Append(@, [node |-> 0, index |-> 0,
                                                           value |-> value])],
                            base_it.node, base_it.index, cell, cell)} |->
        [t |-> r.t, it |-> NodeGet(r.t, r.node, r.index)]])])])

\* ------------------------------------------------- the trees on their own
\* A Sequence or an OrderedSet of order N receives insertions at the front,
\* in the middle and at the end, the key changes of PieceTree::split, and
\* tombstone flips followed by update(begin, end); validator is the list of
\* its cells in the order the insertions ask for.
MaxCells == 8
MaxValue == 3
MaxSplits == 1
MaxUpdates == 1
\* how many operations of one kind the log holds
Count(kind) == Cardinality({i \in 1..Len(log) : log[i] = kind})
SeqValue(k) == [len |-> 1 + (k % 2), tombStone |-> NullOp]
Places(n) == {1, (n + 2) \div 2, n + 1}
ItAt(p) == IF p > Len(validator) THEN Special ELSE validator[p]

InitTree ==
    /\ doc = NewEngine(1)
    /\ doc2 = NewEngine(1)
    /\ log = <<>>
    /\ log2 = <<>>
    /\ op_stamp = 1
    /\ pool = {}
    /\ validator = <<>>
    /\ tree \in {BPlusTree("Sequence"), BPlusTree("OrderedSet")}

\* Sequence::insertBefore(it, value)
TInsertBefore ==
    /\ tree.kind = "Sequence"
    /\ tree.sz < MaxCells
    /\ \E p \in Places(Len(validator)) :
           /\ tree' = Sequence_insertBefore(tree, ItAt(p),
                                            SeqValue(Len(tree.cells))).t
           /\ validator' = InsertAt(validator, p, Len(tree.cells) + 1)
    /\ UNCHANGED <<doc, doc2, log, log2, op_stamp, pool>>

\* PieceTree::split(it, pos): the cell keeps the right part, its key is set
\* to its new size, and the left part is inserted before it
TSplit ==
    /\ tree.kind = "Sequence"
    /\ tree.sz < MaxCells
    /\ Count("split") < MaxSplits
    /\ log' = Append(log, "split")
    /\ \E p \in Places(Len(validator)) \cap 1..Len(validator) :
       \E pos \in 0..(tree.cells[validator[p]].value.len - 1) :
       \E right \in {[tree.cells[validator[p]].value EXCEPT !.len = @ - pos]} :
           /\ tree' = Sequence_insertBefore(
                          [tree EXCEPT !.cells[validator[p]].value = right,
                                       !.nodes[tree.cells[validator[p]].node]
                                          .keys[tree.cells[validator[p]].index + 1]
                                           = PieceSize(right)],
                          validator[p],
                          [tree.cells[validator[p]].value EXCEPT !.len = pos]).t
           /\ validator' = InsertAt(validator, p, Len(tree.cells) + 1)
    /\ UNCHANGED <<doc, doc2, log2, op_stamp, pool>>

\* the tombstones of the pieces from begin to end are flipped, then
\* Sequence::update(begin, end)
Flip(v) == [v EXCEPT !.tombStone = IF @ = NullOp THEN <<1, 1>> ELSE NullOp]
TUpdate ==
    /\ tree.kind = "Sequence"
    /\ Count("update") < MaxUpdates
    /\ log' = Append(log, "update")
    /\ \E b, e \in Places(Len(validator)) \cap 1..Len(validator) :
           /\ b <= e
           /\ tree' = Sequence_update(
                          [tree EXCEPT !.cells =
                              [c \in DOMAIN tree.cells |->
                                  IF \E i \in b..e : validator[i] = c
                                  THEN [tree.cells[c] EXCEPT !.value = Flip(@)]
                                  ELSE tree.cells[c]]],
                          validator[b], validator[e])
    /\ UNCHANGED <<doc, doc2, log2, op_stamp, pool, validator>>

\* OrderedSet::insert(value)
TSetInsert ==
    /\ tree.kind = "OrderedSet"
    /\ tree.sz < MaxCells
    /\ \E value \in 1..MaxValue :
           /\ tree' = OrderedSet_insert(tree, value).t
           /\ validator' =
                  InsertAt(validator,
                           1 + Cardinality({i \in 1..Len(validator) :
                                 tree.cells[validator[i]].value < value}),
                           Len(tree.cells) + 1)
    /\ UNCHANGED <<doc, doc2, log, log2, op_stamp, pool>>

NextTree == TInsertBefore \/ TSplit \/ TUpdate \/ TSetInsert
SpecTree == InitTree /\ [][NextTree]_vars

\* the sizes of the pieces before place p of the sequence
RECURSIVE SizeBefore(_, _)
SizeBefore(t, p) ==
    IF p <= 1 THEN [total |-> 0, visible |-> 0]
    ELSE [total |-> SizeBefore(t, p - 1).total
                      + PieceSize(t.cells[validator[p - 1]].value).total,
          visible |-> SizeBefore(t, p - 1).visible
                      + PieceSize(t.cells[validator[p - 1]].value).visible]
\* each key of an internal node is the sum of the keys of its child, each key
\* of a leaf the size of its piece
KeysSummarize(t) ==
    \A n \in 1..Len(t.nodes) : \A i \in 1..t.nodes[n].count :
        t.nodes[n].keys[i] =
            IF t.nodes[n].is_leaf
            THEN PieceSize(t.cells[t.nodes[n].subs[i]].value)
            ELSE AddKeys(t.nodes[t.nodes[n].subs[i]].keys,
                         t.nodes[t.nodes[n].subs[i]].count)
PositionsSum(t) ==
    \A p \in 1..Len(validator) :
        IteratorPosition(t, validator[p]) = SizeBefore(t, p)

\* C35 - summaries: after every insertion, split, and tombstone flips
\* followed by update(begin, end), each internal key is the elementwise sum
\* of the keys of its child node, each leaf key is its piece's (total,
\* visible) size, and the position of a cursor built from a piece pointer is
\* the sum of the sizes of all pieces before it.
SummaryInvariant ==
    tree.kind = "Sequence" => KeysSummarize(tree) /\ PositionsSum(tree)
SummaryInvariantWitness ==
    /\ tree.kind = "Sequence"
    /\ Count("split") = 1
    /\ Count("update") = 1
    /\ ~tree.nodes[tree.root].is_leaf
    /\ ~tree.nodes[tree.nodes[tree.root].subs[1]].is_leaf
    /\ \E c, d \in DOMAIN tree.cells :
           /\ tree.cells[c].value.tombStone # NullOp
           /\ tree.cells[d].value.tombStone = NullOp
           /\ tree.cells[c].node # tree.cells[d].node

\* the cell of every element records the leaf and the index that hold it
CellsInPlace(t) ==
    \A c \in DOMAIN t.cells :
        /\ t.cells[c].node \in 1..Len(t.nodes)
        /\ t.nodes[t.cells[c].node].is_leaf
        /\ t.cells[c].index < t.nodes[t.cells[c].node].count
        /\ NodeGet(t, t.cells[c].node, t.cells[c].index) = c

\* C36 - stable element identity: after any sequence of insertions into a
\* Sequence or an OrderedSet, those that split leaves and internal nodes
\* included, every element's cell records the leaf and index where the
\* element is stored, so a cursor built from an element pointer designates
\* that element, and forward iteration visits all elements once, in the
\* order of the insertions.
StableCells == CellsInPlace(tree) /\ Elements(tree) = validator
StableCellsWitness ==
    /\ tree.kind = "OrderedSet"
    /\ tree.sz = MaxCells
    /\ ~tree.nodes[tree.root].is_leaf
    /\ ~tree.nodes[tree.nodes[tree.root].subs[1]].is_leaf
    /\ \E c \in DOMAIN tree.cells :
           c < Len(tree.cells) /\ tree.cells[c].node # 1 /\ tree.cells[c].index # 0

\* the n codepoints that start at byte from of the bytes b
RECURSIVE DecodeN(_, _, _)
DecodeN(b, from, n) ==
    IF n = 0 \/ from >= Len(b) THEN <<>>
    ELSE IF b[from + 1] = "C3" /\ from + 1 < Len(b)
    THEN <<"E9">> \o DecodeN(b, from + 2, n - 1)
    ELSE <<b[from + 1]>> \o DecodeN(b, from + 1, n - 1)
\* the codepoints of the pieces at the places i .. n of the piece tree,
\* removed or not
RECURSIVE HistoryFrom(_, _, _)
HistoryFrom(e, i, n) ==
    IF i > n THEN <<>>
    ELSE DecodeN(Encode(Op(e, PieceAt(e, i).seg).data),
                 PieceAt(e, i).data, PieceAt(e, i).len)
         \o HistoryFrom(e, i + 1, n)
HistoryText(e) == HistoryFrom(e, 1, Len(e.piece_tree))
\* every piece of d is a piece of e, of the same segment and in the same
\* order, and the segments have the data they had
KeepsPieces(d, e) ==
    /\ \A p \in DOMAIN d.pieces :
           p \in DOMAIN e.pieces /\ e.pieces[p].seg = d.pieces[p].seg
    /\ \A i, j \in 1..Len(d.piece_tree) :
           i < j =>
               /\ \E k \in 1..Len(e.piece_tree) : e.piece_tree[k] = d.piece_tree[i]
               /\ \E k \in 1..Len(e.piece_tree) : e.piece_tree[k] = d.piece_tree[j]
               /\ index(e, d.piece_tree[i]) < index(e, d.piece_tree[j])
    /\ \A seg \in Segs(d) :
           seg \in Segs(e) /\ Op(e, seg).data = Op(d, seg).data
EditStep == log' # log /\ Last(log').op.type \in {"Delete", "Undo", "Redo"}

\* C37 - del, undo and redo keep the historical text: the codepoints of all
\* pieces, tombstoned or not, in piece-tree order are the same before and
\* after each of these operations, and no piece is removed; only tombstones
\* and piece boundaries change.
HistoryKept ==
    [][(EditStep /\ doc'.fault = "none")
           => /\ HistoryText(doc') = HistoryText(doc)
              /\ KeepsPieces(doc, doc')]_vars
HistoryKeptWitness ==
    /\ pool = PoolWide
    /\ doc.fault = "none"
    /\ Len(log) = 3
    /\ Last(log).op.type = "Undo"
    /\ HistoryText(doc) = <<"h", "E9", "l", "l", "o", "E", "O", "F">>
    /\ Len(doc.piece_tree) >= 4

\* the stored range operations of e
RangeOps(e) == {p \in StoredOps(e) : Op(e, p).type = "Delete"}
\* the two tags of the range operation p have one status, which is Undone
\* exactly when p has been undone
TagsAgree(e, p) ==
    /\ Op(e, p).left # End
    /\ Op(e, p).right # End
    /\ e.tags[Op(e, p).left].status = e.tags[Op(e, p).right].status
    /\ (e.tags[Op(e, p).left].status = "Undone") = Op(e, p).has_undo
StatusOK(e) == \A p \in RangeOps(e) : TagsAgree(e, p)

\* C38 - tag status: after every public operation that completes, the left
\* and right tags of every range operation have the same status, and that
\* status is Undone exactly when the operation's has_undo flag is true.
TagStatusInvariant ==
    /\ doc.fault = "none" => StatusOK(doc)
    /\ doc2.fault = "none" => StatusOK(doc2)

TagStatusInvariantWitness ==
    /\ doc.fault = "none"
    /\ \E p, q, r \in RangeOps(doc) :
           /\ doc.tags[Op(doc, p).left].status = "Undone"
           /\ doc.tags[Op(doc, q).left].status = "Active"
           /\ doc.tags[Op(doc, r).left].status = "UnUsed"

\* the left tag of the range operation p is before its right tag in the tag
\* tree
LeftBeforeRight(e, p) ==
    tagIndex(e, Op(e, p).left) < tagIndex(e, Op(e, p).right)
\* a piece of the anchor's segment starts at the anchor of tag t
PieceAtAnchor(e, t) ==
    \E i \in 1..Len(e.piece_tree) :
        /\ PieceAt(e, i).seg = e.tags[t].anchor.seg
        /\ PieceAt(e, i).seg_pos = e.tags[t].anchor.pos
TagsPlaced(e) ==
    \A p \in RangeOps(e) :
        /\ LeftBeforeRight(e, p)
        /\ PieceAtAnchor(e, Op(e, p).left)
        /\ PieceAtAnchor(e, Op(e, p).right)
\* the ways a lock-step walk of redoRangeOp or undoRangeOp leaves the trees
WalkFaults == {"tag walk past end()", "piece walk past end()"}

\* C39 - range walks: for every stored range operation, also one whose begin
\* and end anchors are equal, the left tag precedes the right tag in the tag
\* tree and a piece starts at the anchor of each tag, and the walks of
\* redoRangeOp and undoRangeOp from the left tag reach the right tag without
\* running past the end of the tag tree or of the piece tree.
RangeWalkEnds ==
    /\ doc.fault \notin WalkFaults
    /\ doc.fault = "none" => TagsPlaced(doc)

\* op names a stored Redo record of e
NamesRedoRecord(e, op) ==
    /\ op.type \in {"Undo", "Redo"}
    /\ replicas_find(e, op.target.replica) # End
    /\ Len(e.replicas[replicas_find(e, op.target.replica)].segments) > op.target.stamp
    /\ Op(e, <<replicas_find(e, op.target.replica), op.target.stamp>>).type = "Redo"
\* the operation x that the Redo record named by op redid
RedoneBy(e, op) ==
    Op(e, <<replicas_find(e, op.target.replica), op.target.stamp>>).target
\* op is an Undo of a Redo record of an operation that is undone, or a Redo
\* of a Redo record of an operation that is not undone
NothingToDo(e, op) ==
    /\ NamesRedoRecord(e, op)
    /\ Op(e, RedoneBy(e, op)).has_undo = (op.type = "Undo")

\* C40 - undo and redo of a Redo record: an Undo that names a Redo record of
\* x is applied to x only if x is not undone, and a Redo that names a Redo
\* record only if x is undone; otherwise the request is dropped and the
\* document is as it was.
RedoRecordGate ==
    [][/\ (log' # log /\ NothingToDo(doc, Last(log').op)) => doc' = doc
       /\ (log2' # log2 /\ NothingToDo(doc2, Last(log2').op)) => doc2' = doc2]_vars

====
